---- MODULE Spec2Model ----
(***************************************************************************)
(* file_sort: configuration loading (config/deserializer.rs,               *)
(* config/model.rs), rule matching (discovery/matcher.rs), destination     *)
(* synthesis (path_gen/*.rs), format conversion and file actions           *)
(* (file_ops/*.rs) and the run loop (workflow/engine.rs).                  *)
(*                                                                         *)
(* Strings are sequences of one-character strings, paths are sequences of  *)
(* path components, Option<T> is a sequence of length 0 (None) or 1 (Some).*)
(***************************************************************************)
EXTENDS Integers, Sequences, FiniteSets, TLC

\* ------------------------------------------------------------------ bounds
\* Depth of nested load_config calls at which the native stack is exhausted.
StackLimit == 4

\* Longest rule list a configuration file of the model declares.
MaxRules == 2

\* Most files the download directory of the model holds.
MaxFiles == 2

\* Most content conditions a rule of the unit calls carries.
MaxConditions == 2

\* Most entries the globbed directory of the unit calls holds.
MaxEntries == 3

\* Longest pattern of the unit calls of extract_pattern.
MaxPatternLen == 5

\* Longest file name text of the unit calls of process_date.
MaxDestinationLen == 4

\* Last day of the calendar of the unit calls of process_date: the days are
\* 0..LastDay, day 0 being the earliest date there is.
LastDay == 2

\* Number of workers of the parallel pool.
NumWorkers == 2

\* --------------------------------------------------------------- Option<T>
None == <<>>

Some(x) == <<x>>

IsSome(o) == Len(o) = 1

IsNone(o) == Len(o) = 0

Unwrap(o) == o[1]

\* ----------------------------------------------------------------- strings
\* Byte value of the characters the model uses (ASCII).  A file extension or
\* a format name is written as one symbol ("png"), ordered by its first byte.
Code(c) ==
  CASE c = " " -> 32 [] c = "(" -> 40 [] c = "-" -> 45 [] c = "." -> 46
    [] c = "0" -> 48 [] c = "1" -> 49 [] c = "2" -> 50 [] c = "3" -> 51
    [] c = "<" -> 60 [] c = ">" -> 62 [] c = "_" -> 95
    [] c = "a" -> 97 [] c = "b" -> 98 [] c = "c" -> 99 [] c = "d" -> 100
    [] c = "jpg" -> 106 [] c = "png" -> 112 [] c = "r" -> 114
    [] c = "t" -> 116 [] c = "txt" -> 116 [] c = "x" -> 120 [] c = "z" -> 122
    [] OTHER -> 127

RECURSIVE StrLess(_, _)
\* s < t in the byte-wise lexicographic order of Rust's str / Path ordering.
StrLess(s, t) ==
  IF Len(t) = 0 THEN FALSE
  ELSE IF Len(s) = 0 THEN TRUE
  ELSE IF Code(Head(s)) # Code(Head(t)) THEN Code(Head(s)) < Code(Head(t))
  ELSE StrLess(Tail(s), Tail(t))

\* str::contains / a literal search: needle occurs in hay at position i.
OccursAt(needle, hay, i) ==
  /\ i >= 1
  /\ i + Len(needle) - 1 <= Len(hay)
  /\ \A k \in 1..Len(needle) : hay[i + k - 1] = needle[k]

StrContains(hay, needle) == \E i \in 1..(Len(hay) + 1) : OccursAt(needle, hay, i)

\* -------------------------------------------------------------- regex crate
\* The patterns of the model are literal characters and ".", which matches
\* any one character; "(" stands for a pattern the regex crate rejects
\* (unclosed group).
RegexValid(p) == \A k \in 1..Len(p) : p[k] # "("

RegexMatchAt(p, s, i) ==
  /\ i >= 1
  /\ i + Len(p) - 1 <= Len(s)
  /\ \A k \in 1..Len(p) : p[k] = "." \/ s[i + k - 1] = p[k]

\* Regex::is_match: unanchored search.
RegexIsMatch(p, s) == \E i \in 1..(Len(s) + 1) : RegexMatchAt(p, s, i)

\* Regex::captures(..).get(0): the text of the leftmost match.
RegexGroup0(p, s) ==
  LET i == CHOOSE j \in 1..(Len(s) + 1) :
             /\ RegexMatchAt(p, s, j)
             /\ \A h \in 1..(j - 1) : ~RegexMatchAt(p, s, h)
  IN SubSeq(s, i, i + Len(p) - 1)

\* ------------------------------------------------------------------ Result
Ok(v) == [ok |-> TRUE, val |-> v, err |-> "Ok"]

Err(e) == [ok |-> FALSE, val |-> <<>>, err |-> e]

\* ------------------------------------------------------------------- paths
\* The root component: an absolute path is a sequence that starts with it.
RootComp == <<"/">>

IsAbsolute(path) == Len(path) > 0 /\ path[1] = RootComp

\* PathBuf::join / push: an absolute argument replaces the path.
Join(path, rel) == IF IsAbsolute(rel) THEN rel ELSE path \o rel

\* PathBuf::pop / Path::parent.
Parent(path) == SubSeq(path, 1, Len(path) - 1)

DotDot == <<".", ".">>

\* Path::file_name: None when the path ends in ".." or is the root.
FileName(path) ==
  IF Len(path) = 0 \/ path[Len(path)] = DotDot \/ path[Len(path)] = RootComp
  THEN None
  ELSE Some(path[Len(path)])

\* ------------------------------------------------------------- filesystem
\* A filesystem is a function from the paths that exist to their entries.
DirEntry == [kind |-> "dir", content |-> <<>>]

FileEntry(c) == [kind |-> "file", content |-> c]

Exists(fs, p) == p \in DOMAIN fs

IsDir(fs, p) == p \in DOMAIN fs /\ fs[p].kind = "dir"

IsFile(fs, p) == p \in DOMAIN fs /\ fs[p].kind = "file"

\* ------------------------------------------------------------------- rules
\* config/model.rs Rule; root is the 0-based index into Config.root.
MkRule(title, pattern) ==
  [title |-> title, pattern |-> pattern, patterns |-> None,
   content_conditions |-> None, match_all_conditions |-> TRUE,
   directory |-> None, function |-> None, processors |-> None,
   root |-> 0, copy |-> FALSE, old_pattern |-> <<>>, new_pattern |-> <<>>]

\* config/model.rs ConfigProcessor with the serde defaults (merger " ").
MkProcessor ==
  [splitter |-> None, merger |-> Some(<<" ">>), pattern |-> None,
   date_format |-> None, replacement |-> None, format_conversion |-> None]

\* An extract_rule_with_pattern that leaves `patterns` on the derived rule.
extract_rule_keeping_patterns(rule, pattern) == [rule EXCEPT !.pattern = Some(pattern)]

\* extract_rule_with_pattern: the rule with `pattern` set and `patterns` cleared.
extract_rule_with_pattern(rule, pattern) ==
  [rule EXCEPT !.pattern = Some(pattern), !.patterns = None]

\* process_patterns / map_patterns_to_rules: one rule per pattern string.
map_patterns_to_rules(rule) ==
  IF IsNone(rule.patterns) THEN <<rule>>
  ELSE [i \in 1..Len(Unwrap(rule.patterns)) |->
          extract_rule_with_pattern(rule, Unwrap(rule.patterns)[i])]

RECURSIVE process_and_append_rule(_, _)
\* Appends the expansion of every rule of `rules` to `new_rules`.
process_and_append_rule(rules, new_rules) ==
  IF Len(rules) = 0 THEN new_rules
  ELSE process_and_append_rule(Tail(rules),
                               new_rules \o map_patterns_to_rules(Head(rules)))

RECURSIVE process_and_append_rules(_, _, _)
\* Rules given per root: the i-th list (0-based idx) sets root idx on the
\* rules whose root is 0.
process_and_append_rules(roots, idx, new_rules) ==
  IF Len(roots) = 0 THEN new_rules
  ELSE LET withRoot == [i \in 1..Len(Head(roots)) |->
                          IF Head(roots)[i].root = 0
                          THEN [Head(roots)[i] EXCEPT !.root = idx]
                          ELSE Head(roots)[i]]
       IN process_and_append_rules(Tail(roots), idx + 1,
                                   process_and_append_rule(withRoot, new_rules))

RECURSIVE Dedup(_)
\* Vec::dedup: removes consecutive repeated elements.
Dedup(s) ==
  IF Len(s) <= 1 THEN s
  ELSE IF s[1] = s[2] THEN Dedup(Tail(s))
  ELSE <<s[1]>> \o Dedup(Tail(s))

\* parse_rules: `raw` is [kind |-> "single", lists |-> <<rules>>] or
\* [kind |-> "roots", lists |-> <<rules of root 0, rules of root 1, ...>>].
parse_rules(raw) ==
  Dedup(IF raw.kind = "single"
        THEN process_and_append_rule(raw.lists[1], <<>>)
        ELSE process_and_append_rules(raw.lists, 0, <<>>))

\* ------------------------------------------------------------------ Config
\* serde_yaml::from_str::<Config>: the configuration a file's text gives.
ParseConfig(raw) ==
  [root |-> raw.root, download |-> raw.download,
   rules |-> parse_rules(raw.rules), parent |-> raw.parent]

\* A title check that does not trim: only the empty title is blank.
TitleIsEmpty(s) == Len(s) = 0

\* String::trim().is_empty()
TrimIsEmpty(s) == \A k \in 1..Len(s) : s[k] = " "

\* Rule validation that leaves out the root index requirement.
ValidateRuleWithoutRootBound(rule, nroots) ==
  IF TrimIsEmpty(rule.title) THEN "EmptyTitle"
  ELSE IF IsNone(rule.pattern) /\ IsNone(rule.patterns) THEN "NoPattern"
  ELSE "Ok"

\* The check of one rule in Config::validate, "Ok" or the violated requirement.
ValidateRule(rule, nroots) ==
  IF TrimIsEmpty(rule.title) THEN "EmptyTitle"
  ELSE IF IsNone(rule.pattern) /\ IsNone(rule.patterns) THEN "NoPattern"
  ELSE IF rule.root >= nroots THEN "RootOutOfBounds"
  ELSE "Ok"

\* Config::validate: "Ok" or the first violated requirement.
validate(config, check_paths, fs) ==
  IF Len(config.root) = 0 THEN "NoRoot"
  ELSE IF check_paths /\ \E i \in 1..Len(config.root) : ~IsDir(fs, config.root[i])
  THEN LET i == CHOOSE j \in 1..Len(config.root) :
                   /\ ~IsDir(fs, config.root[j])
                   /\ \A h \in 1..(j - 1) : IsDir(fs, config.root[h])
       IN IF Exists(fs, config.root[i]) THEN "RootNotDir" ELSE "RootMissing"
  ELSE IF check_paths /\ ~Exists(fs, config.download) THEN "DownloadMissing"
  ELSE IF check_paths /\ ~IsDir(fs, config.download) THEN "DownloadNotDir"
  ELSE IF Len(config.rules) = 0 THEN "NoRules"
  ELSE IF \E i \in 1..Len(config.rules) :
            ValidateRule(config.rules[i], Len(config.root)) # "Ok"
  THEN LET i == CHOOSE j \in 1..Len(config.rules) :
                   /\ ValidateRule(config.rules[j], Len(config.root)) # "Ok"
                   /\ \A h \in 1..(j - 1) :
                        ValidateRule(config.rules[h], Len(config.root)) = "Ok"
       IN ValidateRule(config.rules[i], Len(config.root))
  ELSE "Ok"

\* A merge that puts the parent's rules before the child's.
merge_configs_parent_first(parent, child) ==
  [child EXCEPT
     !.root = IF Len(child.root) = 0 THEN parent.root ELSE child.root,
     !.rules = parent.rules \o child.rules]

\* merge_configs: the child with empty fields taken from the parent and the
\* parent's rules appended after the child's.
merge_configs(parent, child) ==
  [child EXCEPT
     !.root = IF Len(child.root) = 0 THEN parent.root ELSE child.root,
     !.rules = IF Len(child.rules) = 0 THEN parent.rules
               ELSE child.rules \o parent.rules]

\* load_config, parent path resolution: an absolute parent is taken as it is,
\* a relative one is resolved against the directory of the configuration file.
ResolveParent(file, parent_path) ==
  IF IsAbsolute(parent_path) THEN parent_path ELSE Join(Parent(file), parent_path)

\* ------------------------------------------------------- content analysis
\* Path::extension of a file name: the text after the last ".", None when the
\* name has no "." or only a leading one.
Extension(name) ==
  IF \E k \in 2..Len(name) : name[k] = "."
  THEN LET k == CHOOSE j \in 2..Len(name) :
                   name[j] = "." /\ \A h \in (j + 1)..Len(name) : name[h] # "."
       IN Some(SubSeq(name, k + 1, Len(name)))
  ELSE None

\* get_file_metadata: the MIME type guessed from the extension.
MimeOf(name) ==
  LET e == Extension(name)
  IN IF e = Some(<<"txt">>) THEN <<"text", "/", "plain">>
     ELSE IF e = Some(<<"jpg">>) THEN <<"image", "/", "jpeg">>
     ELSE IF e = Some(<<"png">>) THEN <<"image", "/", "png">>
     ELSE <<"application", "/", "octet-stream">>

\* analyse_file_content: metadata, text/binary classification and preview.
\* A file's content is [id, size, nul, text, image, format, mtime, ctime]:
\* nul says whether a 0 byte is among the first 1024 bytes, image whether the
\* bytes decode as an image, format the image format or text encoding.
analyse_file_content(fs, path) ==
  IF ~IsFile(fs, path) THEN Err("Io")
  ELSE LET c == fs[path].content
           is_text == c.size > 0 /\ ~c.nul
       IN Ok([size |-> c.size, modified |-> c.mtime, created |-> c.ctime,
              mime_type |-> MimeOf(path[Len(path)]),
              text_preview |-> IF is_text THEN Some(c.text) ELSE None,
              is_text |-> is_text, is_binary |-> ~is_text])

Digit(c) ==
  CASE c = "0" -> 0 [] c = "1" -> 1 [] c = "2" -> 2 [] c = "3" -> 3 [] OTHER -> -1

RECURSIVE DigitsValue(_)
DigitsValue(s) ==
  IF Len(s) = 0 THEN 0
  ELSE 10 * DigitsValue(SubSeq(s, 1, Len(s) - 1)) + Digit(s[Len(s)])

AllDigits(s) == Len(s) > 0 /\ \A k \in 1..Len(s) : Digit(s[k]) >= 0

\* str::parse::<u64>
ParseU64(s) == IF AllDigits(s) THEN Some(DigitsValue(s)) ELSE None

\* str::parse::<i64>
ParseI64(s) ==
  IF AllDigits(s) THEN Some(DigitsValue(s))
  ELSE IF Len(s) > 1 /\ s[1] = "-" /\ AllDigits(Tail(s))
  THEN Some(0 - DigitsValue(Tail(s)))
  ELSE None

\* str::parse::<bool>
ParseBool(s) ==
  IF s = <<"t", "r", "u", "e">> THEN Some(TRUE)
  ELSE IF s = <<"f", "a", "l", "s", "e">> THEN Some(FALSE)
  ELSE None

\* DateTime::parse_from_rfc3339: a date is written as one symbol; the two
\* dates of the model and their instants.
ParseRfc3339(s) ==
  IF s = <<"1970-01-01T00:00:01Z">> THEN Some(1)
  ELSE IF s = <<"1970-01-01T00:00:05Z">> THEN Some(5)
  ELSE None

StartsWith(s, prefix) == OccursAt(prefix, s, 1)

EndsWith(s, suffix) == OccursAt(suffix, s, Len(s) - Len(suffix) + 1)

\* The ordering operators with any other operator read as "does not hold".
CompareOrderedLenient(operator, a, b, what) ==
  CASE operator = "Equal" -> Ok(a = b)
    [] operator = "NotEqual" -> Ok(a # b)
    [] operator = "GreaterThan" -> Ok(a > b)
    [] operator = "LessThan" -> Ok(a < b)
    [] operator = "GreaterThanOrEqual" -> Ok(a >= b)
    [] operator = "LessThanOrEqual" -> Ok(a <= b)
    [] OTHER -> Ok(FALSE)

\* The six ordering operators on a pair of numbers; Err for any other operator.
CompareOrdered(operator, a, b, what) ==
  CASE operator = "Equal" -> Ok(a = b)
    [] operator = "NotEqual" -> Ok(a # b)
    [] operator = "GreaterThan" -> Ok(a > b)
    [] operator = "LessThan" -> Ok(a < b)
    [] operator = "GreaterThanOrEqual" -> Ok(a >= b)
    [] operator = "LessThanOrEqual" -> Ok(a <= b)
    [] OTHER -> Err(what)

\* evaluate_condition
evaluate_condition(condition, analysis) ==
  LET op == condition.operator
      v == condition.value
  IN CASE condition.property = "Size" ->
            IF IsNone(ParseU64(v)) THEN Err("InvalidSize")
            ELSE CompareOrdered(op, analysis.size, Unwrap(ParseU64(v)), "InvalidOperator")
       [] condition.property = "MimeType" ->
            CASE op = "Equal" -> Ok(analysis.mime_type = v)
              [] op = "NotEqual" -> Ok(analysis.mime_type # v)
              [] op = "Contains" -> Ok(StrContains(analysis.mime_type, v))
              [] op = "StartsWith" -> Ok(StartsWith(analysis.mime_type, v))
              [] op = "EndsWith" -> Ok(EndsWith(analysis.mime_type, v))
              [] OTHER -> Err("InvalidOperator")
       [] condition.property = "IsText" ->
            IF IsNone(ParseBool(v)) THEN Err("InvalidBool")
            ELSE CASE op = "Equal" -> Ok(analysis.is_text = Unwrap(ParseBool(v)))
                   [] op = "NotEqual" -> Ok(analysis.is_text # Unwrap(ParseBool(v)))
                   [] OTHER -> Err("InvalidOperator")
       [] condition.property = "IsBinary" ->
            IF IsNone(ParseBool(v)) THEN Err("InvalidBool")
            ELSE CASE op = "Equal" -> Ok(analysis.is_binary = Unwrap(ParseBool(v)))
                   [] op = "NotEqual" -> Ok(analysis.is_binary # Unwrap(ParseBool(v)))
                   [] OTHER -> Err("InvalidOperator")
       [] condition.property = "Content" ->
            IF IsNone(analysis.text_preview) THEN Ok(FALSE)
            ELSE LET preview == Unwrap(analysis.text_preview)
                 IN CASE op = "Contains" -> Ok(StrContains(preview, v))
                      [] op = "StartsWith" -> Ok(StartsWith(preview, v))
                      [] op = "EndsWith" -> Ok(EndsWith(preview, v))
                      [] op = "Matches" ->
                           IF RegexValid(v) THEN Ok(RegexIsMatch(v, preview))
                           ELSE Err("Regex")
                      [] OTHER -> Err("InvalidOperator")
       [] condition.property = "Modified" ->
            IF IsNone(ParseRfc3339(v)) THEN Err("InvalidDate")
            ELSE CompareOrdered(op, analysis.modified, Unwrap(ParseRfc3339(v)),
                                "InvalidOperator")
       [] condition.property = "Created" ->
            IF IsNone(ParseRfc3339(v)) THEN Err("InvalidDate")
            ELSE CompareOrdered(op, analysis.created, Unwrap(ParseRfc3339(v)),
                                "InvalidOperator")

\* ------------------------------------------------------------------ matcher
\* FileInfo::new: the path, its file name, and no content analysis yet.
FileInfo(path) == [path |-> path, filename |-> path[Len(path)], content_analysis |-> None]

\* A does_rule_match in which a condition that fails to evaluate fails the rule.
does_rule_match_condition_error_propagates(file_info, rule, fs) ==
  LET conditions == Unwrap(rule.content_conditions)
      analysis == analyse_file_content(fs, file_info.path)
      Eval(i) == evaluate_condition(conditions[i], analysis.val)
  IN IF Len(rule.old_pattern) = 0 \/ ~RegexValid(rule.old_pattern) THEN Err("PatternMatching")
     ELSE IF ~RegexIsMatch(rule.old_pattern, file_info.filename) THEN Ok(FALSE)
     ELSE IF IsNone(rule.content_conditions) \/ Len(conditions) = 0 THEN Ok(TRUE)
     ELSE IF ~analysis.ok THEN Err("Io")
     ELSE IF \E i \in 1..Len(conditions) : ~Eval(i).ok THEN Err("Condition")
     ELSE Ok(IF rule.match_all_conditions
             THEN \A i \in 1..Len(conditions) : Eval(i).val
             ELSE \E i \in 1..Len(conditions) : Eval(i).val)

\* does_rule_match: Ok(TRUE/FALSE) or Err.
does_rule_match(file_info, rule, fs) ==
  LET pattern_ok == Len(rule.old_pattern) = 0 \/ RegexValid(rule.old_pattern)
      pattern_match ==
        IF Len(rule.old_pattern) # 0
        THEN RegexIsMatch(rule.old_pattern, file_info.filename)
        ELSE IF IsSome(rule.patterns)
        THEN \E i \in 1..Len(Unwrap(rule.patterns)) :
               /\ RegexValid(Unwrap(rule.patterns)[i])
               /\ RegexIsMatch(Unwrap(rule.patterns)[i], file_info.filename)
        ELSE IsSome(rule.content_conditions)
  IN IF ~pattern_ok THEN Err("PatternMatching")
     ELSE IF ~pattern_match \/ IsNone(rule.content_conditions) THEN Ok(pattern_match)
     ELSE LET conditions == Unwrap(rule.content_conditions)
              analysis == analyse_file_content(fs, file_info.path)
              Eval(i) == evaluate_condition(conditions[i], analysis.val)
              all_match == \A i \in 1..Len(conditions) : Eval(i).ok /\ Eval(i).val
              any_match == \E i \in 1..Len(conditions) : Eval(i).ok /\ Eval(i).val
          IN IF Len(conditions) = 0 THEN Ok(TRUE)
             ELSE IF ~analysis.ok THEN Err("Io")
             ELSE Ok(IF rule.match_all_conditions THEN all_match ELSE any_match)

\* A matching loop that returns at the first rule that matches.
match_rules_first_only(file_info, rules, fs, i) ==
  LET hits == {j \in i..Len(rules) :
                 LET r == does_rule_match(file_info, rules[j], fs) IN r.ok /\ r.val}
  IN IF hits = {} THEN <<>>
     ELSE <<CHOOSE j \in hits : \A h \in hits : j <= h>>

RECURSIVE match_rules_from(_, _, _, _)
\* The loop of match_file_against_rules from rule index i on: the indices of
\* the rules for which does_rule_match is Ok(true), in the order visited.
match_rules_from(file_info, rules, fs, i) ==
  IF i > Len(rules) THEN <<>>
  ELSE LET r == does_rule_match(file_info, rules[i], fs)
       IN (IF r.ok /\ r.val THEN <<i>> ELSE <<>>)
          \o match_rules_from(file_info, rules, fs, i + 1)

\* FileInfo::ensure_content_analysed: the calls of analyse_file_content it
\* makes, one unless the analysis is already loaded.
ensure_content_analysed_calls(file_info) ==
  IF IsNone(file_info.content_analysis) THEN 1 ELSE 0

\* does_rule_match: the analyses of the file's content it makes.  It reaches
\* ensure_content_analysed when the pattern matches and the rule has a
\* condition, and calls it on a clone of file_info that it drops on return.
content_analyses_of_rule(file_info, rule) ==
  IF /\ Len(rule.old_pattern) # 0
     /\ RegexValid(rule.old_pattern)
     /\ RegexIsMatch(rule.old_pattern, file_info.filename)
     /\ IsSome(rule.content_conditions)
     /\ Len(Unwrap(rule.content_conditions)) > 0
  THEN ensure_content_analysed_calls(file_info)
  ELSE 0

\* match_file_against_rules: the analyses made for rules i.. of the list;
\* every rule is handed the same file_info.
RECURSIVE content_analyses_from(_, _, _)
content_analyses_from(file_info, rules, i) ==
  IF i > Len(rules) THEN 0
  ELSE content_analyses_of_rule(file_info, rules[i])
         + content_analyses_from(file_info, rules, i + 1)

\* match_file_against_rules: a MatchResult is the file and the matching rule,
\* named here by the rule's position in the rule list.
match_file_against_rules(file_info, rules, fs) ==
  match_rules_from(file_info, rules, fs, 1)

\* ----------------------------------------------------- directory selection
\* constants.rs WILDCARD
WILDCARD == <<"*">>

\* FolderFunction::construct_path: root, the args, then the wildcard.
construct_path(function, root) ==
  IF IsSome(function.args) THEN Join(Join(root, Unwrap(function.args)), <<WILDCARD>>)
  ELSE Join(root, <<WILDCARD>>)

\* glob::glob of a pattern whose last component is the wildcard: the entries
\* of the directory.
GlobResults(fs, pattern) == {p \in DOMAIN fs : Len(p) > 1 /\ Parent(p) = Parent(pattern)}

RECURSIVE Enumeration(_)
\* read_dir inside glob: the paths of S in some order.
Enumeration(S) ==
  IF S = {} THEN <<>>
  ELSE LET p == CHOOSE q \in S : TRUE IN <<p>> \o Enumeration(S \ {p})

\* A glob that yields the entries in the order the directory is read in.
glob_unsorted(entries) == entries

RECURSIVE glob_sort(_)
\* glob::glob yields the entries of a directory in the alphabetical order of
\* their file names, whatever order the directory is read in.
glob_sort(entries) ==
  IF Len(entries) <= 1 THEN entries
  ELSE LET rest == glob_sort(Tail(entries))
           p == Head(entries)
           before == SelectSeq(rest, LAMBDA q : StrLess(q[Len(q)], p[Len(p)]))
           after == SelectSeq(rest, LAMBDA q : ~StrLess(q[Len(q)], p[Len(p)]))
       IN before \o <<p>> \o after

\* FolderFunction::get_result_based_on_transformation: the last or the first
\* of the glob's results.
get_result_based_on_transformation(function, results) ==
  IF function.name = "last" THEN results[Len(results)] ELSE results[1]

\* FolderFunction::get_dir
get_dir(function, root, fs) ==
  LET results == glob_sort(Enumeration(GlobResults(fs, construct_path(function, root))))
  IN IF Len(results) = 0 THEN Err("DirectoryNotFound")
     ELSE Ok(get_result_based_on_transformation(function, results))

\* apply_transformative_function: Ok(TransformResult) or Err.
apply_transformative_function(source_path, root_paths, rule, fs) ==
  LET root_path == root_paths[rule.root + 1]
      target_dir ==
        IF IsSome(rule.function) THEN get_dir(Unwrap(rule.function), root_path, fs)
        ELSE IF IsSome(rule.directory) THEN Ok(Join(root_path, Unwrap(rule.directory)))
        ELSE Ok(Join(root_path, <<rule.title>>))
  IN IF target_dir.ok
     THEN Ok([source_path |-> source_path, target_dir |-> target_dir.val])
     ELSE target_dir

\* ------------------------------------------------------- destination path
\* parse_file: the text the rule's regex matches in the file name.
parse_file(filename, pattern) ==
  IF ~RegexValid(pattern) THEN Err("PatternMatching")
  ELSE IF ~RegexIsMatch(pattern, filename) THEN Err("NoMatch")
  ELSE Ok(RegexGroup0(pattern, filename))

\* str::split on a non-empty separator: the text before the first occurrence
\* and, when there is one, the rest split further.
RECURSIVE Split(_, _)
Split(s, sep) ==
  IF ~StrContains(s, sep) THEN <<s>>
  ELSE LET i == CHOOSE j \in 1..Len(s) :
                   OccursAt(sep, s, j) /\ \A h \in 1..(j - 1) : ~OccursAt(sep, s, h)
       IN <<SubSeq(s, 1, i - 1)>> \o Split(SubSeq(s, i + Len(sep), Len(s)), sep)

\* chrono format of an instant of 1969-12-31 or 1970-01-01 under a format of
\* the directives %Y, %m, %d (one symbol each) and literal characters.
FormatDate(timestamp, fmt) ==
  LET before == timestamp < 0
  IN [k \in 1..Len(fmt) |->
        CASE fmt[k] = "%Y" -> IF before THEN "1969" ELSE "1970"
          [] fmt[k] = "%m" -> IF before THEN "12" ELSE "01"
          [] fmt[k] = "%d" -> IF before THEN "31" ELSE "01"
          [] OTHER -> fmt[k]]

\* A process_date that rejoins with the last segment instead of the second.
process_date_last_segment(destination, fmt, splitter, merger) ==
  LET parts == Split(destination, splitter)
      timestamp == ParseI64(parts[1])
  IN IF Len(parts) < 2 THEN Err("Split")
     ELSE IF IsNone(timestamp) THEN Err("Timestamp")
     ELSE IF IsNone(merger) THEN Err("Merger")
     ELSE Ok(FormatDate(Unwrap(timestamp), fmt) \o Unwrap(merger) \o parts[Len(parts)])

\* process_date with a splitter that has no % directive.
process_date(destination, fmt, splitter, merger) ==
  LET parts == Split(destination, splitter)
      timestamp == ParseI64(parts[1])
  IN IF Len(parts) < 2 THEN Err("Split")
     ELSE IF IsNone(timestamp) THEN Err("Timestamp")
     ELSE IF IsNone(merger) THEN Err("Merger")
     ELSE Ok(FormatDate(Unwrap(timestamp), fmt) \o Unwrap(merger) \o parts[2])

\* Regex::replace: the first match replaced by the replacement text.
RegexReplace(pattern, s, replacement) ==
  IF ~RegexIsMatch(pattern, s) THEN s
  ELSE LET i == CHOOSE j \in 1..(Len(s) + 1) :
                   /\ RegexMatchAt(pattern, s, j)
                   /\ \A h \in 1..(j - 1) : ~RegexMatchAt(pattern, s, h)
       IN SubSeq(s, 1, i - 1) \o replacement \o SubSeq(s, i + Len(pattern), Len(s))

\* process_pattern
process_pattern(destination, pattern, replacement) ==
  IF ~RegexValid(pattern) THEN Err("PatternMatching")
  ELSE IF IsSome(replacement)
  THEN Ok(RegexReplace(pattern, destination, Unwrap(replacement)))
  ELSE Ok(destination)

\* apply_processors: date processing, then pattern replacement.
apply_processors(processed_value, config_processor) ==
  LET dated ==
        IF IsSome(config_processor.date_format) /\ IsSome(config_processor.splitter)
        THEN process_date(processed_value, Unwrap(config_processor.date_format),
                          Unwrap(config_processor.splitter), config_processor.merger)
        ELSE Ok(processed_value)
  IN IF ~dated.ok THEN dated
     ELSE IF IsSome(config_processor.pattern)
     THEN process_pattern(dated.val, Unwrap(config_processor.pattern),
                          config_processor.replacement)
     ELSE dated

\* PathBuf::join of a file name text: the empty text adds no component.
JoinName(dir, name) == IF Len(name) = 0 THEN dir ELSE Join(dir, <<name>>)

\* generate_destination_path: Ok(PathResult), Err, or "Panic" when
\* target_path.file_name() is None and the unwrap aborts the process.
generate_destination_path(transform_result, rule) ==
  LET source_path == transform_result.source_path
      source_filename == source_path[Len(source_path)]
      parsed == parse_file(source_filename, rule.old_pattern)
      processed ==
        IF parsed.ok /\ IsSome(rule.processors)
        THEN apply_processors(parsed.val, Unwrap(rule.processors))
        ELSE parsed
      target_path == JoinName(transform_result.target_dir, processed.val)
  IN IF ~processed.ok THEN processed
     ELSE IF IsNone(FileName(target_path)) THEN Err("Panic")
     ELSE Ok([source_path |-> source_path, target_path |-> target_path])

\* --------------------------------------------------- filesystem operations
\* The non-empty prefixes of a path: the path and its ancestors.
Ancestors(p) == {SubSeq(p, 1, k) : k \in 1..Len(p)}

\* std::fs::create_dir_all: fails when the path or an ancestor is a file.
create_dir_all(fs, p) ==
  IF \E a \in Ancestors(p) : IsFile(fs, a) THEN [res |-> Err("Io"), fs |-> fs]
  ELSE [res |-> Ok(<<>>),
        fs |-> [q \in DOMAIN fs \cup Ancestors(p) |->
                  IF q \in DOMAIN fs THEN fs[q] ELSE DirEntry]]

\* std::fs::remove_file
remove_file(fs, p) ==
  IF ~IsFile(fs, p) THEN [res |-> Err("Io"), fs |-> fs]
  ELSE [res |-> Ok(<<>>), fs |-> [q \in DOMAIN fs \ {p} |-> fs[q]]]

\* File::create followed by a write of `content`: the file is created or
\* truncated; fails when the parent is not a directory or the path is one.
write_file(fs, p, content) ==
  IF ~IsDir(fs, Parent(p)) \/ IsDir(fs, p) THEN [res |-> Err("Io"), fs |-> fs]
  ELSE [res |-> Ok(<<>>),
        fs |-> [q \in DOMAIN fs \cup {p} |-> IF q = p THEN FileEntry(content) ELSE fs[q]]]

\* fs_extra::file::copy with overwrite: the source must be an existing file;
\* std::fs::copy opens the target truncating, so a copy onto itself empties it.
copy(fs, from, to) ==
  IF ~Exists(fs, from) THEN [res |-> Err("NotFound"), fs |-> fs]
  ELSE IF ~IsFile(fs, from) THEN [res |-> Err("InvalidFile"), fs |-> fs]
  ELSE IF from = to
  THEN write_file(fs, to, [fs[from].content EXCEPT !.size = 0, !.text = <<>>])
  ELSE write_file(fs, to, fs[from].content)

\* fs_extra::file::move_file with overwrite: copy, then remove the source.
move_file(fs, from, to) ==
  LET copied == copy(fs, from, to)
  IN IF ~copied.res.ok THEN copied ELSE remove_file(copied.fs, from)

\* -------------------------------------------------------- format conversion
SUPPORTED_IMAGE_FORMATS ==
  {<<"jpg">>, <<"jpeg">>, <<"png">>, <<"gif">>, <<"webp">>, <<"bmp">>, <<"tiff">>}

SUPPORTED_TEXT_ENCODINGS ==
  {<<"utf-8">>, <<"utf-16">>, <<"utf-16le">>, <<"utf-16be">>, <<"iso-8859-1">>,
   <<"windows-1252">>}

\* TEMPORARY_PATH: the one temporary file of the process, in the system's
\* temporary directory.
TEMPORARY_PATH == <<RootComp, <<"tmp">>, <<"tmpfile">>>>

\* Path::with_extension on the last component.
WithExtension(path, ext) ==
  LET name == path[Len(path)]
      stem == IF IsSome(Extension(name))
              THEN SubSeq(name, 1, Len(name) - Len(Unwrap(Extension(name))) - 1)
              ELSE name
  IN [path EXCEPT ![Len(path)] = stem \o <<".">> \o ext]

\* convert_image_format: [res, fs] with res Ok(<<source, target>>) or Err.
convert_image_format(source_path, target_path, conversion, run_execution, fs) ==
  LET target == WithExtension(target_path, conversion.target_format)
  IN IF ~run_execution THEN [res |-> Ok(<<source_path, target>>), fs |-> fs]
     ELSE IF ~IsFile(fs, source_path) \/ ~fs[source_path].content.image
     THEN [res |-> Err("OpenImage"), fs |-> fs]
     ELSE LET written == write_file(fs, TEMPORARY_PATH,
                           [fs[source_path].content EXCEPT
                              !.format = conversion.target_format])
              removed == remove_file(written.fs, source_path)
          IN IF ~written.res.ok THEN written
             ELSE IF ~removed.res.ok THEN removed
             ELSE [res |-> Ok(<<TEMPORARY_PATH, target>>), fs |-> removed.fs]

\* convert_text_encoding: [res, fs] with res Ok(<<source, target>>) or Err.
convert_text_encoding(source_path, target_path, conversion, run_execution, fs) ==
  IF ~run_execution THEN [res |-> Ok(<<source_path, target_path>>), fs |-> fs]
  ELSE IF ~IsFile(fs, source_path) THEN [res |-> Err("OpenFile"), fs |-> fs]
  ELSE LET made == create_dir_all(fs, Parent(target_path))
           written == write_file(made.fs, TEMPORARY_PATH,
                        [fs[source_path].content EXCEPT
                           !.format = conversion.target_format])
       IN IF ~made.res.ok THEN made
          ELSE IF ~written.res.ok THEN written
          ELSE [res |-> Ok(<<source_path, TEMPORARY_PATH>>), fs |-> written.fs]

\* apply_conversion: image to image, text to text, anything else unsupported.
apply_conversion(source_path, target_path, conversion, run_execution, fs) ==
  IF /\ conversion.source_format \in SUPPORTED_IMAGE_FORMATS
     /\ conversion.target_format \in SUPPORTED_IMAGE_FORMATS
  THEN convert_image_format(source_path, target_path, conversion, run_execution, fs)
  ELSE IF /\ conversion.source_format \in SUPPORTED_TEXT_ENCODINGS
          /\ conversion.target_format \in SUPPORTED_TEXT_ENCODINGS
  THEN convert_text_encoding(source_path, target_path, conversion, run_execution, fs)
  ELSE [res |-> Err("UnsupportedConversion"), fs |-> fs]

\* A convert_file_format that asks the file's extension to be among the
\* formats of the conversion's kind, for text encodings as for images.
convert_file_format_by_extension(path_result, rule, run_execution, fs) ==
  LET source_path == path_result.source_path
      source_ext == IF IsSome(Extension(source_path[Len(source_path)]))
                    THEN Unwrap(Extension(source_path[Len(source_path)]))
                    ELSE <<>>
      conversion == Unwrap(Unwrap(rule.processors).format_conversion)
      applied == apply_conversion(source_path, path_result.target_path, conversion,
                                  run_execution, fs)
  IN IF /\ IsSome(rule.processors)
        /\ IsSome(Unwrap(rule.processors).format_conversion)
        /\ \/ /\ conversion.source_format \in SUPPORTED_IMAGE_FORMATS
              /\ source_ext \in SUPPORTED_IMAGE_FORMATS
           \/ /\ conversion.source_format \in SUPPORTED_TEXT_ENCODINGS
              /\ source_ext \in SUPPORTED_TEXT_ENCODINGS
     THEN IF applied.res.ok
          THEN [res |-> Ok([source_path |-> applied.res.val[1],
                            target_path |-> applied.res.val[2]]),
                fs |-> applied.fs]
          ELSE applied
     ELSE [res |-> Ok(path_result), fs |-> fs]

\* convert_file_format: [res, fs] with res Ok(ConversionResult) or Err.
convert_file_format(path_result, rule, run_execution, fs) ==
  LET source_path == path_result.source_path
      source_ext == IF IsSome(Extension(source_path[Len(source_path)]))
                    THEN Unwrap(Extension(source_path[Len(source_path)]))
                    ELSE <<>>
      conversion == Unwrap(Unwrap(rule.processors).format_conversion)
      applied == apply_conversion(source_path, path_result.target_path, conversion,
                                  run_execution, fs)
  IN IF /\ IsSome(rule.processors)
        /\ IsSome(Unwrap(rule.processors).format_conversion)
        /\ \/ /\ conversion.source_format \in SUPPORTED_IMAGE_FORMATS
              /\ source_ext \in SUPPORTED_IMAGE_FORMATS
           \/ conversion.source_format \in SUPPORTED_TEXT_ENCODINGS
     THEN IF applied.res.ok
          THEN [res |-> Ok([source_path |-> applied.res.val[1],
                            target_path |-> applied.res.val[2]]),
                fs |-> applied.fs]
          ELSE applied
     ELSE [res |-> Ok(path_result), fs |-> fs]

\* ------------------------------------------------------------- file action
\* perform_file_action: [res, fs] with res Ok(FileActionResult) or Err.
perform_file_action(conversion_result, rule, run_execution, fs) ==
  LET source_path == conversion_result.source_path
      target_path == conversion_result.target_path
      made == create_dir_all(fs, Parent(target_path))
      acted == IF rule.copy THEN copy(made.fs, source_path, target_path)
               ELSE move_file(made.fs, source_path, target_path)
      done == Ok([source_path |-> source_path, target_path |-> target_path,
                  success |-> TRUE])
  IN IF ~made.res.ok THEN made
     ELSE IF ~run_execution THEN [res |-> done, fs |-> made.fs]
     ELSE IF ~acted.res.ok THEN acted
     ELSE [res |-> done, fs |-> acted.fs]

\* ------------------------------------------------------- rule preparation
\* clean_pattern: the pattern without its "<" and ">" characters.
clean_pattern(pattern) == SelectSeq(pattern, LAMBDA c : c # "<" /\ c # ">")

IsBracket(c) == c = "<" \/ c = ">"

\* Whether the regex <([^<>]*)> matches at position i: the next bracket
\* character after the "<" at i is a ">".
MarkerAt(pattern, i) ==
  /\ pattern[i] = "<"
  /\ \E j \in (i + 1)..Len(pattern) :
       pattern[j] = ">" /\ \A h \in (i + 1)..(j - 1) : ~IsBracket(pattern[h])

\* extract_pattern: group 1 of .*<([^<>]*)>.* (the greedy .* takes the last
\* marker), or the whole pattern when the regex does not match.
extract_pattern(pattern) ==
  IF \E i \in 1..Len(pattern) : MarkerAt(pattern, i)
  THEN LET i == CHOOSE k \in 1..Len(pattern) :
                   MarkerAt(pattern, k) /\ \A h \in (k + 1)..Len(pattern) : ~MarkerAt(pattern, h)
           j == CHOOSE k \in (i + 1)..Len(pattern) :
                   pattern[k] = ">" /\ \A h \in (i + 1)..(k - 1) : ~IsBracket(pattern[h])
       IN SubSeq(pattern, i + 1, j - 1)
  ELSE pattern

\* A make_patterns that leaves the brackets in the match pattern.
make_patterns_keeping_brackets(rule) ==
  IF IsSome(rule.pattern)
  THEN [rule EXCEPT !.old_pattern = Unwrap(rule.pattern),
                    !.new_pattern = extract_pattern(Unwrap(rule.pattern))]
  ELSE rule

\* Rule::make_patterns
make_patterns(rule) ==
  IF IsSome(rule.pattern)
  THEN [rule EXCEPT !.old_pattern = clean_pattern(Unwrap(rule.pattern)),
                    !.new_pattern = extract_pattern(Unwrap(rule.pattern))]
  ELSE rule

\* prepare_rules: make_patterns on every rule (it cannot fail).
prepare_rules(rules) == [i \in 1..Len(rules) |-> make_patterns(rules[i])]

\* ============================================================== the model
VARIABLES
  pc,                  \* position in process_files / load_config
  dry_run,             \* ProcessingOptions.dry_run
  check_paths,         \* validate(true) of load_config, (false) of load_config_for_testing
  config_path,         \* ProcessingOptions.config_path
  disk,                \* the configuration files: path -> text (as parsed fields)
  fs,                  \* the filesystem of roots, download and temporary directory
  fs0,                 \* the filesystem when the run started
  loadStack,           \* the nested load_config calls, innermost last
  config,              \* the loaded Config
  files,               \* scan_directory's result
  fileIdx,             \* the file the outer loop is at
  matches,             \* match_file_against_rules' result for that file
  matchIdx,            \* the match the inner loop is at
  stats,               \* WorkflowContext.stats
  planned_operations,  \* WorkflowContext.planned_operations
  result,              \* what process_files returned: "None" while running
  log,                 \* one entry per iteration of the inner loop
  call,                \* a function called on its own: its name and arguments
  ret,                 \* what that call returned: None before it returns
  todo,                \* parallel workers: the items no worker has taken yet
  workers,             \* parallel workers: what each worker is doing
  count                \* parallel workers: the shared counter

\* The state of a run of process_files.
run_vars ==
  <<pc, dry_run, check_paths, config_path, disk, fs, fs0, loadStack, config, files,
    fileIdx, matches, matchIdx, stats, planned_operations, result, log>>

\* The state of a pool of parallel workers.
par_vars == <<todo, workers, count>>

vars == <<run_vars, call, ret, par_vars>>

\* ------------------------------------------------------- names of the model
Root1 == <<RootComp, <<"r", "1">>>>

Root2 == <<RootComp, <<"r", "2">>>>

Download == <<RootComp, <<"d", "l">>>>

TempDir == <<RootComp, <<"tmp">>>>

CfgMain == <<RootComp, <<"cfg">>, <<"main">>>>

CfgBase == <<RootComp, <<"cfg">>, <<"base">>>>

CfgOld == <<RootComp, <<"cfg">>, <<"old">>>>

FileA1 == <<"a", "1", ".", "png">>

FileA2 == <<"a", "2", ".", "txt">>

FileT1 == <<"1", "_", "b", ".", "txt">>

DownloadNames == {FileA1, FileA2, FileT1}

ContentOf(name) ==
  [id |-> name, size |-> IF name = FileA2 THEN 0 ELSE 3,
   nul |-> name = FileA1, text |-> IF name = FileT1 THEN <<"a", "b">> ELSE <<>>,
   image |-> name = FileA1,
   format |-> IF name = FileA1 THEN <<"png">> ELSE <<"utf-8">>,
   mtime |-> 5, ctime |-> 1]

\* The filesystem before the run: the roots, two directories and a file in
\* the first root, the temporary directory, and `names` in the download
\* directory.
InitialFs(names) ==
  LET dirs == {<<RootComp>>, Root1, Root2, Download, TempDir,
               Join(Root1, <<<<"d", "1">>>>), Join(Root1, <<<<"d", "2">>>>)}
      blocker == Join(Root1, <<<<"b">>>>)
      dl == {Join(Download, <<n>>) : n \in names}
  IN [p \in dirs \cup {blocker} \cup dl |->
        IF p \in dirs THEN DirEntry
        ELSE IF p = blocker THEN FileEntry(ContentOf(<<"b">>))
        ELSE FileEntry(ContentOf(p[Len(p)]))]

\* --------------------------------------------------- rules of the model
Conversion(from, to) == [source_format |-> from, target_format |-> to, resize |-> None]

Condition(property, operator, value) ==
  [property |-> property, operator |-> operator, value |-> value]

\* move to <root 0>/zz; matches a1.png and a2.txt.
RMove == MkRule(<<"z", "z">>, Some(<<"a">>))

\* copy to <root 0>/c; matches a1.png and a2.txt.
RCopy == [MkRule(<<"c">>, Some(<<"a", "<", ".", ">">>)) EXCEPT !.copy = TRUE]

\* move to the last entry of <root 0>; matches a1.png and 1_b.txt.
RLast ==
  [MkRule(<<"x">>, Some(<<"1">>)) EXCEPT !.function = Some([name |-> "last", args |-> None])]

\* move to the first entry of <root 0>, the file b; matches a2.txt.
RFirst ==
  [MkRule(<<"y">>, Some(<<"2">>)) EXCEPT !.function = Some([name |-> "first", args |-> None])]

\* the glob <root 0>/no/* is empty; matches a1.png and a2.txt.
RNoDir ==
  [MkRule(<<"n">>, Some(<<"a">>)) EXCEPT
     !.function = Some([name |-> "last", args |-> Some(<<<<"n", "o">>>>)])]

\* date processing of 1_b.txt.
RDate ==
  [MkRule(<<"d", "1">>, Some(<<"1", "_", "b">>)) EXCEPT
     !.processors = Some([MkProcessor EXCEPT !.splitter = Some(<<"_">>),
                                             !.date_format = Some(<<"%Y">>)])]

\* date processing that finds no splitter; matches a1.png and a2.txt.
RDateBad ==
  [MkRule(<<"d", "2">>, Some(<<"a">>)) EXCEPT
     !.processors = Some([MkProcessor EXCEPT !.splitter = Some(<<"_">>),
                                             !.date_format = Some(<<"%Y">>)])]

\* png to jpg conversion of a1.png.
RImage ==
  [MkRule(<<"i">>, Some(<<"a", "1">>)) EXCEPT
     !.processors = Some([MkProcessor EXCEPT
        !.format_conversion = Some(Conversion(<<"png">>, <<"jpg">>))])]

\* a conversion from an image format to a text encoding; matches a1.png, a2.txt.
RBadConv ==
  [MkRule(<<"u">>, Some(<<"a">>)) EXCEPT
     !.processors = Some([MkProcessor EXCEPT
        !.format_conversion = Some(Conversion(<<"png">>, <<"utf-8">>))])]

\* utf-8 to utf-16 conversion, copying; matches a2.txt.
RText ==
  [MkRule(<<"t">>, Some(<<"a", "2">>)) EXCEPT
     !.copy = TRUE,
     !.processors = Some([MkProcessor EXCEPT
        !.format_conversion = Some(Conversion(<<"utf-8">>, <<"utf-16">>))])]

\* a replacement that turns the name into ".."; matches 1_b.txt.
RDotDot ==
  [MkRule(<<"p">>, Some(<<"_", "b">>)) EXCEPT
     !.processors = Some([MkProcessor EXCEPT !.pattern = Some(<<"_", "b">>),
                                             !.replacement = Some(DotDot)])]

\* move to <root 1>/d1; matches a1.png and a2.txt.
RRoot2 ==
  [MkRule(<<"r">>, Some(<<"a", ".">>)) EXCEPT !.root = 1, !.directory = Some(<<<<"d", "1">>>>)]

\* any name, but only files that are not empty.
RCond ==
  [MkRule(<<"s">>, Some(<<".">>)) EXCEPT
     !.content_conditions = Some(<<Condition("Size", "GreaterThan", <<"0">>)>>)]

\* a pattern the regex crate rejects.
RBadRegex == MkRule(<<"g">>, Some(<<"(">>))

\* the rule of the parent configuration; matches every name with a ".".
RBase == MkRule(<<"b", "a">>, Some(<<".", "t">>))

RuleCatalog ==
  <<RMove, RCopy, RLast, RFirst, RNoDir, RDate, RDateBad, RImage, RBadConv, RText,
    RDotDot, RRoot2, RCond, RBadRegex>>

\* The selections of k rules of the catalogue, by position, in rising order.
Selections(k) ==
  {sel \in [1..k -> 1..Len(RuleCatalog)] : \A i \in 1..(k - 1) : sel[i] < sel[i + 1]}

\* The rule lists of at most n rules of the catalogue: every selection
\* declared in the catalogue's order and in the opposite order, and every rule
\* declared twice in a row.
RuleLists(n) ==
  UNION {{[i \in 1..k |-> RuleCatalog[sel[i]]] : sel \in Selections(k)}
           \cup {[i \in 1..k |-> RuleCatalog[sel[k + 1 - i]]] : sel \in Selections(k)}
         : k \in 0..n}
  \cup {<<RuleCatalog[i], RuleCatalog[i]>> : i \in 1..Len(RuleCatalog)}

\* -------------------------------------------- configuration files of the model
RawConfig(root, rules, parent) ==
  [yaml_ok |-> TRUE, root |-> root, download |-> Download,
   rules |-> [kind |-> "single", lists |-> <<rules>>], parent |-> parent]

BothRoots == <<Root1, Root2>>

ParentBase == Some(<<<<"base">>>>)

\* One configuration file without a parent.
PlainDisks == {CfgMain :> RawConfig(BothRoots, rl, None) : rl \in RuleLists(MaxRules) \ {<<>>}}

ParentOld == Some(<<<<"old">>>>)

\* A child without roots and its parent, and a chain of three in which only
\* the oldest configuration has roots.
ChildDisks ==
  {(CfgMain :> RawConfig(<<>>, rl, ParentBase))
     @@ (CfgBase :> RawConfig(BothRoots, <<RBase>>, None)) : rl \in RuleLists(1)}
  \cup
  {(CfgMain :> RawConfig(<<>>, <<RCopy>>, ParentBase))
     @@ (CfgBase :> RawConfig(<<>>, rl, ParentOld))
     @@ (CfgOld :> RawConfig(BothRoots, <<RBase>>, None)) : rl \in RuleLists(1)}

\* Configurations whose loading does not succeed: no rules, a rule whose root
\* index is out of bounds, text that does not parse, a missing parent, a
\* configuration naming itself as parent, and a cycle of two.
FailingDisks ==
  {CfgMain :> RawConfig(BothRoots, <<>>, None),
   CfgMain :> RawConfig(<<Root1>>, <<RRoot2>>, None),
   CfgMain :> [RawConfig(BothRoots, <<RMove>>, None) EXCEPT !.yaml_ok = FALSE],
   CfgMain :> RawConfig(BothRoots, <<RMove>>, Some(<<<<"gone">>>>)),
   CfgMain :> RawConfig(BothRoots, <<RMove>>, Some(<<<<"main">>>>)),
   (CfgMain :> RawConfig(BothRoots, <<RMove>>, ParentBase))
     @@ (CfgBase :> RawConfig(BothRoots, <<RBase>>, Some(CfgMain))),
   (CfgMain :> RawConfig(<<Root1>>, <<RMove>>, ParentBase))
     @@ (CfgBase :> RawConfig(BothRoots, <<RRoot2>>, None))}

EmptyConfig == [root |-> <<>>, download |-> <<>>, rules |-> <<>>, parent |-> None]

EmptyStats ==
  [files_processed |-> 0, files_matched |-> 0, files_moved |-> 0, files_copied |-> 0,
   files_converted |-> 0, errors |-> 0]

\* The state before process_files is called on `d`, `names` being the files
\* of the download directory.
\* No pool of workers.
NoWorkers == todo = {} /\ workers = <<>> /\ count = 0

InitWith(d, names, dry, check) ==
  /\ pc = "start"
  /\ dry_run = dry
  /\ check_paths = check
  /\ config_path = CfgMain
  /\ disk = d
  /\ fs = InitialFs(names)
  /\ fs0 = InitialFs(names)
  /\ loadStack = <<>>
  /\ config = EmptyConfig
  /\ files = <<>>
  /\ fileIdx = 0
  /\ matches = <<>>
  /\ matchIdx = 0
  /\ stats = EmptyStats
  /\ planned_operations = <<>>
  /\ result = "None"
  /\ log = <<>>
  /\ call = None
  /\ NoWorkers
  /\ ret = None

Init ==
  \E d \in PlainDisks \cup ChildDisks \cup FailingDisks :
    \E names \in {n \in SUBSET DownloadNames : Cardinality(n) <= MaxFiles} :
      \E dry \in BOOLEAN : InitWith(d, names, dry, TRUE)

\* ------------------------------------------------------------ load_config
\* directories::ProjectDirs config_dir of the application.
ConfigDir == <<RootComp, <<"etc">>>>

\* read_or_create: the path itself when it exists, else the path under the
\* application's configuration directory.
read_or_create(path, d) == IF path \in DOMAIN d THEN path ELSE Join(ConfigDir, path)

Frame(file, phase, cfg) == [file |-> file, phase |-> phase, config |-> cfg]

\* process_files returns the error `e` of a step that `?` propagates.
ReturnErr(e) ==
  /\ pc' = "done"
  /\ result' = e
  /\ loadStack' = <<>>

\* process_files, line 45-46: read_or_create and the call of load_config.
Start ==
  /\ pc = "start"
  /\ pc' = "load"
  /\ loadStack' = <<Frame(read_or_create(config_path, disk), "enter", EmptyConfig)>>
  /\ UNCHANGED <<call, ret, par_vars>>
  /\ UNCHANGED <<dry_run, check_paths, config_path, disk, fs, fs0, config, files, fileIdx,
                 matches, matchIdx, stats, planned_operations, result, log>>

\* A loader that takes a configuration whose parent file is missing for one
\* without a parent.
LoadEnterOutcomeMissingParentSkipped(file, d) ==
  IF file \notin DOMAIN d THEN "Read"
  ELSE IF ~d[file].yaml_ok THEN "Parse"
  ELSE IF IsNone(d[file].parent) THEN "validate"
  ELSE IF ResolveParent(file, Unwrap(d[file].parent)) \notin DOMAIN d THEN "validate"
  ELSE "recurse"

\* What load_config does with `file` up to the recursive call: "Read" or
\* "Parse" or "ParentNotFound" on an error, "recurse" when the parent is to
\* be loaded, "validate" when there is no parent.
LoadEnterOutcome(file, d) ==
  IF file \notin DOMAIN d THEN "Read"
  ELSE IF ~d[file].yaml_ok THEN "Parse"
  ELSE IF IsNone(d[file].parent) THEN "validate"
  ELSE IF ResolveParent(file, Unwrap(d[file].parent)) \notin DOMAIN d THEN "ParentNotFound"
  ELSE "recurse"

\* load_config, lines 59-110: read and parse the file; with a parent, check
\* that it exists and call load_config on it.  The call that exceeds the
\* stack ends the process.
LoadEnter ==
  /\ pc = "load"
  /\ loadStack[Len(loadStack)].phase = "enter"
  /\ LET n == Len(loadStack)
         file == loadStack[n].file
         outcome == LoadEnterOutcome(file, disk)
         cfg == ParseConfig(disk[file])
     IN CASE outcome = "validate" ->
               /\ loadStack' = [loadStack EXCEPT ![n] = Frame(file, "validate", cfg)]
               /\ UNCHANGED <<pc, result>>
          [] outcome = "recurse" /\ n < StackLimit ->
               /\ loadStack' =
                    Append([loadStack EXCEPT ![n] = Frame(file, "call", cfg)],
                           Frame(ResolveParent(file, Unwrap(cfg.parent)), "enter",
                                 EmptyConfig))
               /\ UNCHANGED <<pc, result>>
          [] outcome = "recurse" /\ n >= StackLimit ->
               /\ pc' = "crashed"
               /\ result' = "StackOverflow"
               /\ UNCHANGED loadStack
          [] OTHER -> ReturnErr(outcome)
  /\ UNCHANGED <<call, ret, par_vars>>
  /\ UNCHANGED <<dry_run, check_paths, config_path, disk, fs, fs0, config, files, fileIdx,
                 matches, matchIdx, stats, planned_operations, log>>

\* The outermost load_config returns Ok(cfg) to process_files.
AfterLoad(cfg) ==
  /\ pc' = "loaded"
  /\ config' = cfg
  /\ loadStack' = <<>>
  /\ UNCHANGED result

\* load_config, lines 113-119: validate the (merged) configuration and return
\* it to the caller, which merges it into its own.
LoadReturn ==
  /\ pc = "load"
  /\ loadStack[Len(loadStack)].phase = "validate"
  /\ LET n == Len(loadStack)
         cfg == loadStack[n].config
         verdict == validate(cfg, check_paths, fs)
     IN IF verdict # "Ok" THEN ReturnErr(verdict) /\ UNCHANGED config
        ELSE IF n = 1 THEN AfterLoad(cfg)
        ELSE /\ loadStack' =
                  [SubSeq(loadStack, 1, n - 1) EXCEPT
                     ![n - 1] = Frame(loadStack[n - 1].file, "validate",
                                      merge_configs(cfg, loadStack[n - 1].config))]
             /\ UNCHANGED <<pc, result, config>>
  /\ UNCHANGED <<call, ret, par_vars>>
  /\ UNCHANGED <<dry_run, check_paths, config_path, disk, fs, fs0, files, fileIdx,
                 matches, matchIdx, stats, planned_operations, log>>

\* ----------------------------------------------------------- process_files
\* process_files, lines 49-52: prepare_rules and the new WorkflowContext.
PrepareRules ==
  /\ pc = "loaded"
  /\ pc' = "scan"
  /\ config' = [config EXCEPT !.rules = prepare_rules(config.rules)]
  /\ UNCHANGED <<call, ret, par_vars>>
  /\ UNCHANGED <<dry_run, check_paths, config_path, disk, fs, fs0, loadStack, files,
                 fileIdx, matches, matchIdx, stats, planned_operations, result, log>>

\* is_hidden_file (unix)
is_hidden_file(path) == Len(path[Len(path)]) > 0 /\ path[Len(path)][1] = "."

\* The paths scan_directory collects: the files of the directory that are
\* not hidden.
ScannedPaths(fs_, directory) ==
  {p \in DOMAIN fs_ : Len(p) > 1 /\ Parent(p) = directory /\ IsFile(fs_, p)
                      /\ ~is_hidden_file(p)}

\* The orders in which read_dir may yield the paths of a set.
Orderings(S) ==
  {o \in [1..Cardinality(S) -> S] : \A i, j \in 1..Cardinality(S) : i # j => o[i] # o[j]}

\* After the inner loop of a file: the next file, or the end of the run.
Advance(fl, i) ==
  IF i < Len(fl)
  THEN pc' = "file" /\ fileIdx' = i + 1 /\ UNCHANGED result
  ELSE pc' = "done" /\ fileIdx' = i + 1 /\ result' = "Ok"

\* process_files, lines 55-60: scan_directory; no file ends the run.
Scan ==
  /\ pc = "scan"
  /\ IF ~IsDir(fs, config.download)
     THEN /\ pc' = "done"
          /\ result' = "Io"
          /\ UNCHANGED <<files, fileIdx>>
     ELSE /\ files' \in Orderings(ScannedPaths(fs, config.download))
          /\ Advance(files', 0)
  /\ UNCHANGED <<call, ret, par_vars>>
  /\ UNCHANGED <<dry_run, check_paths, config_path, disk, fs, fs0, loadStack, config,
                 matches, matchIdx, stats, planned_operations, log>>

\* process_files, lines 69-74: the next file is counted and matched against
\* the rules; without a match the outer loop goes on.
NextFile ==
  /\ pc = "file"
  /\ LET found == match_file_against_rules(FileInfo(files[fileIdx]), config.rules, fs)
     IN /\ matches' = found
        /\ stats' = [stats EXCEPT !.files_processed = @ + 1]
        /\ IF Len(found) > 0
           THEN pc' = "match" /\ matchIdx' = 1 /\ UNCHANGED <<fileIdx, result>>
           ELSE Advance(files, fileIdx) /\ matchIdx' = 0
  /\ UNCHANGED <<call, ret, par_vars>>
  /\ UNCHANGED <<dry_run, check_paths, config_path, disk, fs, fs0, loadStack, config,
                 files, planned_operations, log>>

\* What one iteration of the loop over matches came to: the step it stopped
\* at ("done" when the file was moved or copied), the filesystem it left, the
\* target directory and destination it computed, whether a conversion took
\* place, and the paths the action was given.
MatchOutcome(stage, fs_, target_dir, target, converted, action) ==
  [stage |-> stage, fs |-> fs_, target_dir |-> target_dir, target |-> target,
   converted |-> converted, action |-> action]

\* process_files, lines 146-153: perform_file_action has returned.
after_action(transformed, generated, converted, acted) ==
  MatchOutcome(IF acted.res.ok THEN "done" ELSE "action", acted.fs,
               Some(transformed.target_dir), Some(generated.target_path),
               \/ converted.source_path # generated.source_path
               \/ converted.target_path # generated.target_path,
               Some(converted))

\* process_files, lines 104-146: convert_file_format has returned.
after_conversion(transformed, generated, converted, rule, dry) ==
  IF ~converted.res.ok
  THEN MatchOutcome("convert", converted.fs, Some(transformed.target_dir),
                    Some(generated.target_path), FALSE, None)
  ELSE after_action(transformed, generated, converted.res.val,
                    perform_file_action(converted.res.val, rule, ~dry, converted.fs))

\* process_files, lines 94-104: generate_destination_path has returned, or
\* has panicked.
after_destination(transformed, generated, rule, dry, fs_) ==
  IF ~generated.ok
  THEN MatchOutcome(IF generated.err = "Panic" THEN "panic" ELSE "path", fs_,
                    Some(transformed.target_dir), None, FALSE, None)
  ELSE after_conversion(transformed, generated.val,
                        convert_file_format(generated.val, rule, ~dry, fs_), rule, dry)

\* process_files, lines 80-94: apply_transformative_function has returned.
after_transform(transformed, rule, dry, fs_) ==
  IF ~transformed.ok THEN MatchOutcome("transform", fs_, None, None, FALSE, None)
  ELSE after_destination(transformed.val,
                         generate_destination_path(transformed.val, rule), rule, dry, fs_)

\* One iteration of the inner loop of process_files (lines 76-183) for the
\* file at source_path and a matching rule, on the filesystem fs_: the step
\* that ended the iteration ("transform", "path", "convert" or "action" when
\* that step returned Err, "panic" when it aborted the process, "done" when
\* the file action returned Ok), the filesystem it leaves, and what it
\* computed on the way.
process_match(source_path, root_paths, rule, dry, fs_) ==
  after_transform(apply_transformative_function(source_path, root_paths, rule, fs_),
                  rule, dry, fs_)

\* The extension a planned conversion is reported with.
ExtensionOrUnknown(path) ==
  IF IsSome(Extension(path[Len(path)])) THEN Unwrap(Extension(path[Len(path)]))
  ELSE <<"unknown">>

PlannedOperation(source, destination, kind, from, to, rule_title) ==
  [source |-> source, destination |-> destination,
   operation_type |-> [kind |-> kind, from |-> from, to |-> to],
   rule_title |-> rule_title]

\* The entries one iteration adds to planned_operations in a dry run.
PlannedBy(outcome, rule) ==
  (IF outcome.converted
   THEN <<PlannedOperation(Unwrap(outcome.action).source_path,
                           Unwrap(outcome.action).target_path, "Convert",
                           ExtensionOrUnknown(Unwrap(outcome.action).source_path),
                           ExtensionOrUnknown(Unwrap(outcome.action).target_path),
                           rule.title)>>
   ELSE <<>>)
  \o (IF outcome.stage = "done"
      THEN <<PlannedOperation(Unwrap(outcome.action).source_path,
                              Unwrap(outcome.action).target_path,
                              IF rule.copy THEN "Copy" ELSE "Move", <<>>, <<>>,
                              rule.title)>>
      ELSE <<>>)

\* Statistics that leave a failed conversion out of the error counter.
StatsAfterSilentConversion(st, outcome, rule) ==
  [st EXCEPT
     !.files_matched = @ + 1,
     !.errors = IF outcome.stage \in {"transform", "path", "action"} THEN @ + 1 ELSE @,
     !.files_converted = IF outcome.converted THEN @ + 1 ELSE @,
     !.files_copied = IF outcome.stage = "done" /\ rule.copy THEN @ + 1 ELSE @,
     !.files_moved = IF outcome.stage = "done" /\ ~rule.copy THEN @ + 1 ELSE @]

\* The statistics after one iteration of the inner loop.
StatsAfter(st, outcome, rule) ==
  [st EXCEPT
     !.files_matched = @ + 1,
     !.errors = IF outcome.stage \in {"transform", "path", "convert", "action"}
                THEN @ + 1 ELSE @,
     !.files_converted = IF outcome.converted THEN @ + 1 ELSE @,
     !.files_copied = IF outcome.stage = "done" /\ rule.copy THEN @ + 1 ELSE @,
     !.files_moved = IF outcome.stage = "done" /\ ~rule.copy THEN @ + 1 ELSE @]

\* process_files, lines 76-183: the counters, the planned operations and the
\* position in the two loops after an iteration with the given outcome; a
\* panic ends the process.
record_outcome(rule, outcome) ==
  /\ fs' = outcome.fs
  /\ log' = Append(log, [file |-> files[fileIdx], rule |-> matches[matchIdx],
                         stage |-> outcome.stage,
                         target_dir |-> outcome.target_dir,
                         target |-> outcome.target])
  /\ IF outcome.stage = "panic"
     THEN /\ pc' = "crashed"
          /\ result' = "Panic"
          /\ stats' = [stats EXCEPT !.files_matched = @ + 1]
          /\ UNCHANGED <<planned_operations, fileIdx, matchIdx>>
     ELSE /\ stats' = StatsAfter(stats, outcome, rule)
          /\ planned_operations' =
               IF dry_run THEN planned_operations \o PlannedBy(outcome, rule)
               ELSE planned_operations
          /\ IF matchIdx < Len(matches)
             THEN /\ matchIdx' = matchIdx + 1
                  /\ UNCHANGED <<pc, fileIdx, result>>
             ELSE /\ matchIdx' = 0
                  /\ Advance(files, fileIdx)

\* process_files, lines 76-183: one match of the current file is applied.
ApplyMatch ==
  /\ pc = "match"
  /\ record_outcome(config.rules[matches[matchIdx]],
                    process_match(files[fileIdx], config.root,
                                  config.rules[matches[matchIdx]], dry_run, fs))
  /\ UNCHANGED <<call, ret, par_vars>>
  /\ UNCHANGED <<dry_run, check_paths, config_path, disk, fs0, loadStack, config, files,
                 matches>>

Next == Start \/ LoadEnter \/ LoadReturn \/ PrepareRules \/ Scan \/ NextFile \/ ApplyMatch

Spec == Init /\ [][Next]_vars

\* ------------------------------------------------- functions on their own
\* No run of process_files is under way.
NoRunOn(fs_) ==
  /\ pc = "unit"
  /\ dry_run = FALSE
  /\ check_paths = FALSE
  /\ config_path = CfgMain
  /\ disk = <<>>
  /\ fs = fs_
  /\ fs0 = InitialFs({})
  /\ loadStack = <<>>
  /\ config = EmptyConfig
  /\ files = <<>>
  /\ fileIdx = 0
  /\ matches = <<>>
  /\ matchIdx = 0
  /\ stats = EmptyStats
  /\ planned_operations = <<>>
  /\ result = "None"
  /\ log = <<>>

NoRun == NoRunOn(InitialFs({}))

\* The call `fn` has been made and has not returned.
Calling(fn) == pc = "unit" /\ call.fn = fn /\ IsNone(ret)

\* The call returns `value`.
Return(value) == ret' = Some(value) /\ UNCHANGED <<run_vars, call, par_vars>>

\* The call `fn` has returned.
Returned(fn) == pc = "unit" /\ call.fn = fn /\ IsSome(ret)

\* A path that does not exist.
Missing == <<RootComp, <<"gone">>>>

\* Config::validate called on configurations of at most MaxRules rules, with
\* and without the path checks.  The rules: a valid one, one with a blank and
\* one with an empty title, one without pattern and patterns, one with
\* patterns only, and rules on the second and on the third root.
ValidateCalls ==
  LET VOk == MkRule(<<"v">>, Some(<<"a">>))
      ValidateRules ==
        {VOk, MkRule(<<" ">>, Some(<<"a">>)), MkRule(<<>>, Some(<<"a">>)),
         MkRule(<<"v">>, None),
         [MkRule(<<"v">>, None) EXCEPT !.patterns = Some(<<<<"a">>, <<"b">>>>)],
         [VOk EXCEPT !.root = 1], [VOk EXCEPT !.root = 2]}
  IN {[fn |-> "validate",
       config |-> [root |-> r, download |-> Download, rules |-> rl, parent |-> None],
       check_paths |-> c] :
        r \in {<<>>, <<Root1>>, BothRoots, <<Missing, Root1>>},
        rl \in UNION {[1..k -> ValidateRules] : k \in 0..MaxRules},
        c \in BOOLEAN}

CallValidate ==
  /\ Calling("validate")
  /\ Return(validate(call.config, call.check_paths, fs))

\* evaluate_condition called with every property and operator, on values that
\* are a number, a word, a boolean, a date and a broken regex, against the
\* analysis of a binary file, of an empty file and of a text file.
EvaluateConditionCalls ==
  {[fn |-> "evaluate_condition",
    condition |-> [property |-> p, operator |-> o, value |-> v],
    analysis |-> analyse_file_content(InitialFs(DownloadNames), Join(Download, <<n>>)).val] :
     p \in {"Size", "MimeType", "IsText", "IsBinary", "Content", "Modified", "Created"},
     o \in {"Equal", "NotEqual", "GreaterThan", "LessThan", "GreaterThanOrEqual",
            "LessThanOrEqual", "Contains", "StartsWith", "EndsWith", "Matches"},
     v \in {<<"0">>, <<"3">>, <<"x">>, <<"a">>, <<"(">>, <<"t", "r", "u", "e">>,
            <<"f", "a", "l", "s", "e">>, <<"1970-01-01T00:00:05Z">>},
     n \in DownloadNames}

CallEvaluateCondition ==
  /\ Calling("evaluate_condition")
  /\ Return(evaluate_condition(call.condition, call.analysis))

\* does_rule_match called on each download file with a rule whose pattern
\* matches every name or none, carrying 0..MaxConditions conditions in both
\* modes.  The conditions: two that hold on some files, one with an operator
\* its property does not support, one with a regex that does not compile.
DoesRuleMatchCalls ==
  LET Conditions == {Condition("Size", "GreaterThan", <<"0">>),
                     Condition("MimeType", "StartsWith", <<"text">>),
                     Condition("Size", "Contains", <<"0">>),
                     Condition("Content", "Matches", <<"(">>)}
  IN {[fn |-> "does_rule_match",
       file_info |-> FileInfo(Join(Download, <<n>>)),
       rule |-> make_patterns([MkRule(<<"m">>, Some(p)) EXCEPT
                                 !.content_conditions = Some(cs),
                                 !.match_all_conditions = m])] :
        n \in DownloadNames, p \in {<<".">>, <<"z">>}, m \in BOOLEAN,
        cs \in UNION {[1..k -> Conditions] : k \in 0..MaxConditions}}

CallDoesRuleMatch ==
  /\ Calling("does_rule_match")
  /\ Return(does_rule_match(call.file_info, call.rule, InitialFs(DownloadNames)))

\* FolderFunction::get_dir on a directory of 1..MaxEntries entries, read in
\* every possible order, for both functions.
GetDirCalls ==
  LET Names == {<<"b">>, <<"d", "1">>, <<"d", "1", "0">>, <<"d", "2">>}
      Paths == {Join(Root1, <<n>>) : n \in Names}
  IN {[fn |-> "get_dir", function |-> [name |-> f, args |-> None], entries |-> e] :
        f \in {"first", "last"},
        e \in {o \in UNION {[1..k -> Paths] : k \in 1..MaxEntries} :
                 \A i, j \in 1..Len(o) : i # j => o[i] # o[j]}}

\* get_dir from the glob on: the entries as the glob yields them, and the
\* function's choice among them.
CallGetDir ==
  /\ Calling("get_dir")
  /\ Return(get_result_based_on_transformation(call.function, glob_sort(call.entries)))

\* The decimal digit of a number below 4.
DigitChar(n) == CASE n = 0 -> "0" [] n = 1 -> "1" [] n = 2 -> "2" [] n = 3 -> "3"

\* apply_transformative_function on each download file for a rule whose
\* directory is a name with a <start:length> marker, with ranges inside and
\* outside the file name, and for a rule whose directory has no marker.
ApplyTransformativeFunctionCalls ==
  LET Marker(s, l) == <<"<", DigitChar(s), ":", DigitChar(l), ">">>
      Directories == {<<"d", "1">>} \cup {Marker(s, l) : s, l \in 0..3}
                       \cup {<<"d">> \o Marker(s, l) : s, l \in 0..3}
  IN {[fn |-> "apply_transformative_function",
       source_path |-> Join(Download, <<n>>), root_paths |-> BothRoots,
       rule |-> make_patterns([MkRule(<<"m">>, Some(<<".">>)) EXCEPT
                                 !.directory = Some(<<d>>), !.root = r])] :
        n \in DownloadNames, d \in Directories, r \in 0..1}

CallApplyTransformativeFunction ==
  /\ Calling("apply_transformative_function")
  /\ Return(apply_transformative_function(call.source_path, call.root_paths, call.rule, fs))

\* extract_pattern called on every pattern of at most MaxPatternLen symbols
\* over two letters and the two brackets.
ExtractPatternCalls ==
  {[fn |-> "extract_pattern", pattern |-> p] :
     p \in UNION {[1..k -> {"a", "b", "<", ">"}] : k \in 0..MaxPatternLen}}

CallExtractPattern ==
  /\ Calling("extract_pattern")
  /\ Return(extract_pattern(call.pattern))

\* Rule's Deserialize: the rule a declaration gives, a field that is not
\* declared taking its serde default (root 0).
DeserializeRule(declared) ==
  [MkRule(declared.title, declared.pattern) EXCEPT
     !.patterns = declared.patterns,
     !.root = IF IsSome(declared.root) THEN Unwrap(declared.root) ELSE 0,
     !.copy = declared.copy]

\* parse_rules called on a single list of at most MaxRules declarations and
\* on a list of one or two such lists.  The declarations: with pattern or a
\* patterns list (of different and of equal strings), with and without a
\* root of their own.
ParseRulesCalls ==
  LET Declare(pattern, patterns, root, is_copy) ==
        [title |-> <<"t">>, pattern |-> pattern, patterns |-> patterns,
         root |-> root, copy |-> is_copy]
      Declarations ==
        {Declare(Some(<<"a">>), None, None, FALSE),
         Declare(None, Some(<<<<"a">>, <<"b">>>>), None, FALSE),
         Declare(None, Some(<<<<"a">>, <<"a">>>>), None, TRUE),
         Declare(Some(<<"a">>), None, Some(0), FALSE),
         Declare(Some(<<"b">>), None, Some(1), TRUE),
         Declare(Some(<<"a">>), Some(<<<<"b">>, <<"a">>>>), Some(1), FALSE)}
      Lists == UNION {[1..k -> Declarations] : k \in 0..MaxRules}
  IN {[fn |-> "parse_rules", kind |-> "single", lists |-> <<l>>] : l \in Lists}
       \cup {[fn |-> "parse_rules", kind |-> "roots", lists |-> ls] :
               ls \in UNION {[1..k -> Lists] : k \in 1..2}}

CallParseRules ==
  /\ Calling("parse_rules")
  /\ Return(parse_rules(
       [kind |-> call.kind,
        lists |-> [i \in 1..Len(call.lists) |->
                     [j \in 1..Len(call.lists[i]) |-> DeserializeRule(call.lists[i][j])]]]))

\* process_date called on every text of at most MaxDestinationLen symbols
\* over a digit, the minus sign and two separators, with two literal
\* splitters, two date formats, and the merger absent or present.
ProcessDateCalls ==
  {[fn |-> "process_date", destination |-> d, fmt |-> f, splitter |-> s, merger |-> m] :
     d \in UNION {[1..k -> {"1", "-", "_", "b"}] : k \in 0..MaxDestinationLen},
     f \in {<<"%Y">>, <<"%d", "/", "%m">>},
     s \in {<<"_">>, <<"b">>},
     m \in {None, Some(<<" ">>), Some(<<"-">>)}}

CallProcessDate ==
  /\ Calling("process_date")
  /\ Return(process_date(call.destination, call.fmt, call.splitter, call.merger))

\* convert_file_format called, in a dry and in a real run, for each download
\* file and a rule without processors, with processors but no conversion,
\* and with a conversion between image formats, text encodings and a format
\* that is neither.
ConvertFileFormatCalls ==
  LET Formats == {<<"png">>, <<"jpg">>, <<"utf-8">>, <<"utf-16">>, <<"pdf">>}
      Processors ==
        {None, Some(MkProcessor)}
          \cup {Some([MkProcessor EXCEPT !.format_conversion = Some(Conversion(f, t))]) :
                  f \in Formats, t \in Formats}
  IN {[fn |-> "convert_file_format",
       path_result |-> [source_path |-> Join(Download, <<n>>),
                        target_path |-> Join(Root1, <<<<"d", "1">>, n>>)],
       rule |-> [MkRule(<<"m">>, Some(<<".">>)) EXCEPT !.processors = p],
       run_execution |-> e] :
        n \in DownloadNames, p \in Processors, e \in BOOLEAN}

CallConvertFileFormat ==
  /\ Calling("convert_file_format")
  /\ Return(convert_file_format(call.path_result, call.rule, call.run_execution,
                                InitialFs(DownloadNames)))

\* chrono format of the day `day` under a splitter of literal symbols and the
\* directive %d, a day being written as its one digit.
FormatSplitter(day, splitter) ==
  [k \in 1..Len(splitter) |-> IF splitter[k] = "%d" THEN DigitChar(day) ELSE splitter[k]]

\* process_date on the day `today`.  A splitter with a % directive is
\* formatted with today's date and then with each earlier date until the text
\* contains it (no date left is an error), and the text is split on that;
\* the rest is as for a literal splitter.
process_date_on(destination, fmt, splitter, merger, today) ==
  LET days == {d \in 0..today : StrContains(destination, FormatSplitter(d, splitter))}
      latest == CHOOSE d \in days : \A e \in days : e <= d
  IN IF \A k \in 1..Len(splitter) : splitter[k] # "%d"
     THEN process_date(destination, fmt, splitter, merger)
     ELSE IF days = {} THEN Err("Decrement")
     ELSE process_date(destination, fmt, FormatSplitter(latest, splitter), merger)

\* process_date called twice on the same arguments, for every text of at
\* most MaxDestinationLen symbols and a literal and two dated splitters.
ProcessDateTwiceCalls ==
  {[fn |-> "process_date_twice", destination |-> d, fmt |-> <<"%Y">>, splitter |-> s,
    merger |-> Some(<<" ">>)] :
     d \in UNION {[1..k -> {"1", "2", "_", "b"}] : k \in 0..MaxDestinationLen},
     s \in {<<"_">>, <<"%d">>, <<"_", "%d">>}}

\* The two calls, the second not before the first: Utc::now() is read in each.
CallProcessDateTwice ==
  /\ Calling("process_date_twice")
  /\ \E first \in 0..LastDay, second \in 0..LastDay :
       /\ first <= second
       /\ Return(<<process_date_on(call.destination, call.fmt, call.splitter,
                                   call.merger, first),
                   process_date_on(call.destination, call.fmt, call.splitter,
                                   call.merger, second)>>)

\* Deserialization, expansion and preparation of a list of at most MaxRules
\* declared rules.  The declarations carry values for old_pattern and
\* new_pattern, which Rule's Deserialize skips; their patterns have no
\* marker, one marker, a stray bracket, or are given as a patterns list.
PrepareRulesCalls ==
  LET Declare(pattern, patterns) ==
        [title |-> <<"t">>, pattern |-> pattern, patterns |-> patterns, root |-> None,
         copy |-> FALSE, old_pattern |-> <<"z">>, new_pattern |-> <<"z">>]
      Declarations ==
        {Declare(Some(<<"a">>), None),
         Declare(Some(<<"a", "<", "b", ">">>), None),
         Declare(Some(<<"<", "a", ">", "b", "<">>), None),
         Declare(None, Some(<<<<"<", "a", ">">>, <<"b", ">">>>>)),
         Declare(None, None)}
  IN {[fn |-> "prepare_rules", kind |-> "single", lists |-> <<l>>] :
        l \in UNION {[1..k -> Declarations] : k \in 0..MaxRules}}

CallPrepareRules ==
  /\ Calling("prepare_rules")
  /\ Return(prepare_rules(parse_rules(
       [kind |-> call.kind,
        lists |-> [i \in 1..Len(call.lists) |->
                     [j \in 1..Len(call.lists[i]) |-> DeserializeRule(call.lists[i][j])]]])))

\* One iteration of the inner loop of process_files, lines 76-153, for a
\* file of the download directory and a prepared rule that matches it: the
\* rule moves or copies, and converts nothing, an image or a text.
ProcessMatchCalls ==
  LET Rules == {make_patterns([r EXCEPT !.copy = c]) : r \in {RMove, RImage, RText}, c \in BOOLEAN}
      Fs == InitialFs(DownloadNames)
  IN {c \in {[fn |-> "process_match", source_path |-> Join(Download, <<n>>),
               rule |-> r, dry_run |-> d] :
                d \in BOOLEAN, n \in DownloadNames, r \in Rules} :
        does_rule_match(FileInfo(c.source_path), c.rule, Fs) = Ok(TRUE)}

CallProcessMatch ==
  /\ Calling("process_match")
  /\ Return(process_match(call.source_path, BothRoots, call.rule, call.dry_run,
                          InitialFs(DownloadNames)))

\* match_file_against_rules on a file of the download directory and at most
\* MaxRules prepared rules: with a condition, with an empty list of
\* conditions, without conditions, and with a pattern that matches nothing.
MatchFileCalls ==
  LET Rule(pattern, conditions) ==
        make_patterns([MkRule(<<"m">>, Some(pattern)) EXCEPT !.content_conditions = conditions])
      Sized == Some(<<Condition("Size", "GreaterThan", <<"0">>)>>)
      Rules == {Rule(<<".">>, Sized), Rule(<<"a">>, Sized), Rule(<<"z">>, Sized),
                Rule(<<".">>, Some(<<>>)), Rule(<<".">>, None)}
  IN {[fn |-> "match_file_against_rules", file_info |-> FileInfo(Join(Download, <<n>>)),
       rules |-> r] :
        n \in DownloadNames, r \in UNION {[1..k -> Rules] : k \in 0..MaxRules}}

\* The matches, and the number of analyses of the file's content made.
CallMatchFile ==
  /\ Calling("match_file_against_rules")
  /\ Return([matches |-> match_file_against_rules(call.file_info, call.rules,
                                                   InitialFs(DownloadNames)),
             analyses |-> content_analyses_from(call.file_info, call.rules, 1)])

UnitCalls ==
  ValidateCalls \cup EvaluateConditionCalls \cup DoesRuleMatchCalls \cup GetDirCalls
    \cup ApplyTransformativeFunctionCalls \cup ExtractPatternCalls \cup ParseRulesCalls
    \cup ProcessDateCalls \cup ConvertFileFormatCalls \cup ProcessDateTwiceCalls
    \cup PrepareRulesCalls \cup ProcessMatchCalls \cup MatchFileCalls

InitUnit == NoRun /\ NoWorkers /\ call \in UnitCalls /\ ret = None

NextUnit ==
  \/ CallValidate
  \/ CallEvaluateCondition
  \/ CallDoesRuleMatch
  \/ CallGetDir
  \/ CallApplyTransformativeFunction
  \/ CallExtractPattern
  \/ CallParseRules
  \/ CallProcessDate
  \/ CallConvertFileFormat
  \/ CallProcessDateTwice
  \/ CallPrepareRules
  \/ CallProcessMatch
  \/ CallMatchFile

SpecUnit == InitUnit /\ [][NextUnit]_vars

\* ------------------------------------------------- parallel_test.rs workers
\* The only code of the repository that runs in parallel: the directory
\* entries are handed to the workers of a pool, each of which counts the
\* entries that are files in a shared atomic counter.  (process_files itself
\* runs its two loops on one thread and updates WorkflowContext through
\* &mut self.)
Worker == 1..NumWorkers

Idle == [pc |-> "idle", item |-> None]

\* process_files_sequential: the entries that are files, counted in a loop.
process_files_sequential(entries) ==
  Cardinality({i \in 1..Len(entries) : entries[i]})

\* An addition that is a separate load and store: it is lost when another
\* worker that loaded the same value stores after it.
load_then_store(current, contenders) == IF contenders > 0 THEN current ELSE current + 1

\* AtomicUsize::fetch_add(1): the counter after the addition, whatever the
\* `contenders`, the other workers about to add, are doing.
fetch_add(current, contenders) == current + 1

\* The workers other than w that hold an entry that is a file.
Contenders(w) ==
  Cardinality({v \in Worker \ {w} :
                 workers[v].pc = "work" /\ Unwrap(workers[v].item).is_file})

\* The entries of a directory of at most MaxEntries entries, each a file or
\* not, and a pool of idle workers.
InitCount ==
  /\ NoRun
  /\ call \in {[fn |-> "process_files_parallel", entries |-> e] :
                 e \in UNION {[1..k -> BOOLEAN] : k \in 0..MaxEntries}}
  /\ ret = None
  /\ todo = {[id |-> i, is_file |-> call.entries[i]] : i \in 1..Len(call.entries)}
  /\ workers = [w \in Worker |-> Idle]
  /\ count = 0

\* par_iter: an idle worker takes an entry.
TakeEntry(w) ==
  /\ call.fn = "process_files_parallel"
  /\ workers[w].pc = "idle"
  /\ \E e \in todo :
       /\ todo' = todo \ {e}
       /\ workers' = [workers EXCEPT ![w] = [pc |-> "work", item |-> Some(e)]]
  /\ UNCHANGED <<run_vars, call, ret, count>>

\* The closure of for_each: a file is counted, any other entry is not.
CountEntry(w) ==
  /\ call.fn = "process_files_parallel"
  /\ workers[w].pc = "work"
  /\ count' = IF Unwrap(workers[w].item).is_file
              THEN fetch_add(count, Contenders(w))
              ELSE count
  /\ workers' = [workers EXCEPT ![w] = Idle]
  /\ UNCHANGED <<run_vars, call, ret, todo>>

\* count.load after for_each has returned.
LoadCount ==
  /\ call.fn = "process_files_parallel"
  /\ IsNone(ret)
  /\ todo = {}
  /\ \A w \in Worker : workers[w].pc = "idle"
  /\ ret' = Some(count)
  /\ UNCHANGED <<run_vars, call, par_vars>>

NextCount == (\E w \in Worker : TakeEntry(w) \/ CountEntry(w)) \/ LoadCount

SpecCount == InitCount /\ [][NextCount]_vars

\* ------------------------------------------------ conversions in parallel
\* A worker pool around the steps of process_files, lines 76-153: each
\* worker takes a file of the download directory with the rule that matched
\* it, computes its destination and converts it (a first step), then
\* performs the file action (a second step), on one filesystem and with the
\* one TEMPORARY_PATH of the process.
FileA3 == <<"a", "3", ".", "png">>

ImageNames == {FileA1, FileA3}

\* The filesystem of InitialFs with the images of `names` in the download
\* directory.
ImageFs(names) ==
  LET dl == {Join(Download, <<n>>) : n \in names}
  IN [p \in DOMAIN InitialFs({}) \cup dl |->
        IF p \in dl THEN FileEntry([ContentOf(FileA1) EXCEPT !.id = p[Len(p)]])
        ELSE InitialFs({})[p]]

\* An image rule that matches the file `name` of ImageNames by its stem.
ImageRule(name, is_copy, target_format) ==
  make_patterns([MkRule(<<"i">>, Some(SubSeq(name, 1, 2))) EXCEPT
     !.copy = is_copy,
     !.processors = Some([MkProcessor EXCEPT
        !.format_conversion = Some(Conversion(<<"png">>, target_format))])])

\* process_files, lines 78-144, of a real run for one match: the result of
\* convert_file_format on the generated destination.
convert_match(source_path, rule, fs_) ==
  convert_file_format(
    generate_destination_path(
      apply_transformative_function(source_path, BothRoots, rule, fs_).val, rule).val,
    rule, TRUE, fs_)

\* Distinct files, each with its rule, and a pool of idle workers.
InitConvert ==
  /\ call \in {[fn |-> "convert_parallel", jobs |-> j] :
                 j \in UNION {{[n \in names |-> ImageRule(n, c[n], t[n])] :
                                 c \in [names -> BOOLEAN],
                                 t \in [names -> {<<"jpg">>, <<"gif">>}]} :
                              names \in SUBSET ImageNames}}
  /\ NoRunOn(ImageFs(DOMAIN call.jobs))
  /\ ret = None
  /\ todo = {[source_path |-> Join(Download, <<n>>), rule |-> call.jobs[n],
              converted |-> None] : n \in DOMAIN call.jobs}
  /\ workers = [w \in Worker |-> Idle]
  /\ count = 0

run_vars_but_fs ==
  <<pc, dry_run, check_paths, config_path, disk, fs0, loadStack, config, files,
    fileIdx, matches, matchIdx, stats, planned_operations, result, log>>

\* An idle worker takes a file.
TakeFile(w) ==
  /\ call.fn = "convert_parallel"
  /\ workers[w].pc = "idle"
  /\ \E job \in todo :
       /\ todo' = todo \ {job}
       /\ workers' = [workers EXCEPT ![w] = [pc |-> "convert", item |-> Some(job)]]
  /\ UNCHANGED <<run_vars, call, ret, count>>

ConvertOf(w) ==
  convert_match(Unwrap(workers[w].item).source_path, Unwrap(workers[w].item).rule, fs)

\* The worker converts its file; a failed conversion ends the iteration.
ConvertStep(w) ==
  /\ call.fn = "convert_parallel"
  /\ workers[w].pc = "convert"
  /\ fs' = ConvertOf(w).fs
  /\ workers' =
       [workers EXCEPT ![w] =
          IF ConvertOf(w).res.ok
          THEN [pc |-> "act",
                item |-> Some([Unwrap(workers[w].item) EXCEPT
                                 !.converted = Some(ConvertOf(w).res.val)])]
          ELSE Idle]
  /\ UNCHANGED <<run_vars_but_fs, call, ret, todo, count>>

\* The worker performs the file action on the conversion's result.
ActionStep(w) ==
  /\ call.fn = "convert_parallel"
  /\ workers[w].pc = "act"
  /\ fs' = perform_file_action(Unwrap(Unwrap(workers[w].item).converted),
                               Unwrap(workers[w].item).rule, TRUE, fs).fs
  /\ workers' = [workers EXCEPT ![w] = Idle]
  /\ UNCHANGED <<run_vars_but_fs, call, ret, todo, count>>

NextConvert == \E w \in Worker : TakeFile(w) \/ ConvertStep(w) \/ ActionStep(w)

SpecConvert == InitConvert /\ [][NextConvert]_vars

\* ================================================================= claims
\* The rule list the file at `file` declares.
DeclaredRules(file) == ParseConfig(disk[file]).rules

\* The configuration the run was started on has a parent.
MainHasParent == CfgMain \in DOMAIN disk /\ IsSome(disk[CfgMain].parent)

MainParent == ResolveParent(CfgMain, Unwrap(disk[CfgMain].parent))

\* Loading the configuration on disk fails: the file or its parent does not
\* parse, a declared parent is missing, or the configuration (merged with a
\* parent that has no parent of its own) does not validate.
LoadFailsOnDisk ==
  \/ CfgMain \notin DOMAIN disk
  \/ ~disk[CfgMain].yaml_ok
  \/ /\ ~MainHasParent
     /\ validate(ParseConfig(disk[CfgMain]), TRUE, fs0) # "Ok"
  \/ /\ MainHasParent
     /\ \/ MainParent \notin DOMAIN disk
        \/ ~disk[MainParent].yaml_ok
        \/ /\ IsNone(disk[MainParent].parent)
           /\ \/ validate(ParseConfig(disk[MainParent]), TRUE, fs0) # "Ok"
              \/ validate(merge_configs(ParseConfig(disk[MainParent]),
                                        ParseConfig(disk[CfgMain])), TRUE, fs0) # "Ok"

\* C1: a failure while a rule is applied to a file stays with that file and
\* rule: the run neither stops there nor returns an error, and at its end
\* every scanned file has been counted.
C1_FailureStaysLocal ==
  (\E i \in 1..Len(log) : log[i].stage # "done")
    => /\ pc # "crashed"
       /\ pc = "done" => (result = "Ok" /\ stats.files_processed = Len(files))

\* C2: when loading the configuration fails, process_files returns an error
\* and no file has been scanned, matched, moved or copied.
C2_LoadFailureBeforeFiles ==
  LoadFailsOnDisk
    => /\ pc \in {"start", "load", "done"}
       /\ pc = "done" => result \notin {"Ok", "None"}
       /\ files = <<>> /\ log = <<>> /\ stats = EmptyStats /\ fs = fs0

C2_Witness == pc = "done" /\ LoadFailsOnDisk /\ result = "ParentNotFound"

\* C3: a configuration that load_config returned has at least one root and
\* every rule's root index is below the number of roots.
C3_LoadedRootsInBounds ==
  pc \in {"loaded", "scan", "file", "match"}
    => /\ Len(config.root) > 0
       /\ \A i \in 1..Len(config.rules) : config.rules[i].root < Len(config.root)

C3_Witness ==
  /\ pc = "loaded"
  /\ MainHasParent
  /\ Len(disk[CfgMain].root) = 0
  /\ \E i \in 1..Len(config.rules) : config.rules[i].root = 1

\* C4: the matches of a file are exactly the rules of the effective rule list
\* that match it, in the order of the list, none left out after the first.
C4_AllMatchesInOrder ==
  LET Matching(path) ==
        {i \in 1..Len(config.rules) :
           LET r == does_rule_match(FileInfo(path), config.rules[i], fs)
           IN r.ok /\ r.val}
  IN /\ (pc = "match" /\ matchIdx = 1)
          => /\ {matches[k] : k \in 1..Len(matches)} = Matching(files[fileIdx])
             /\ \A k \in 1..(Len(matches) - 1) : matches[k] < matches[k + 1]
     /\ (pc \in {"file", "done"} /\ fileIdx >= 2 /\ matches = <<>>)
          => Matching(files[fileIdx - 1]) = {}

C4_Witness == pc = "match" /\ matchIdx = 1 /\ Len(matches) >= 2

\* The outcome the iteration of log entry i would have had on the filesystem
\* the run started with.
OutcomeAtStart(i) ==
  process_match(log[i].file, config.root, config.rules[log[i].rule], dry_run, fs0)

\* C5: every match is applied: in a real run the move or copy of each matching
\* rule, which the rule alone would carry out, is carried out.
C5_EveryMatchApplied ==
  ~dry_run
    => \A i \in 1..Len(log) : OutcomeAtStart(i).stage = "done" => log[i].stage = "done"

\* C6: the target directory and destination computed for a match are the ones
\* that would have been computed before the first file operation of the run.
C6_DestinationIndependentOfEarlierOperations ==
  \A i \in 1..Len(log) :
    /\ log[i].target_dir = OutcomeAtStart(i).target_dir
    /\ log[i].target = OutcomeAtStart(i).target

\* C7: a dry run changes nothing on the filesystem.
C7_DryRunChangesNothing == dry_run => fs = fs0

\* The planned operations that are a move or a copy.
PlannedMovesAndCopies ==
  SelectSeq(planned_operations, LAMBDA op : op.operation_type.kind \in {"Move", "Copy"})

\* C8: after a dry run the moved-files counter is 0 and there is one planned
\* move or copy for each match a real run would have moved or copied.
C8_DryRunCounters ==
  (pc = "done" /\ dry_run /\ result = "Ok")
    => /\ stats.files_moved = 0
       /\ Len(PlannedMovesAndCopies)
            = Cardinality({i \in 1..Len(log) :
                 process_match(log[i].file, config.root, config.rules[log[i].rule],
                               FALSE, fs0).stage = "done"})

\* C9: when load_config merges the configuration its parent returned into a
\* child, the merged rules are the parent's if the child declares none, and
\* otherwise the child's followed by the parent's, each in their order.
C9_MergeChildFirst ==
  [][(pc = "load" /\ pc' = "load" /\ Len(loadStack') = Len(loadStack) - 1)
       => LET n == Len(loadStack)
              parent == loadStack[n].config.rules
              child == loadStack[n - 1].config.rules
              merged == loadStack'[n - 1].config.rules
          IN /\ Len(merged) = Len(child) + Len(parent)
             /\ \A i \in 1..Len(child) : merged[i] = child[i]
             /\ \A j \in 1..Len(parent) : merged[Len(child) + j] = parent[j]]_vars

C9_Witness ==
  /\ pc = "loaded"
  /\ MainHasParent
  /\ Len(DeclaredRules(CfgMain)) > 0
  /\ Len(config.rules) > Len(DeclaredRules(CfgMain))
  /\ config.rules[1] = DeclaredRules(CfgMain)[1]

RECURSIVE ChainLoops(_, _)
\* Following the parents from `file` for more steps than there are
\* configuration files still finds a parent: the chain contains a cycle.
ChainLoops(file, fuel) ==
  IF file \notin DOMAIN disk \/ ~disk[file].yaml_ok \/ IsNone(disk[file].parent) THEN FALSE
  ELSE IF fuel = 0 THEN TRUE
  ELSE ChainLoops(ResolveParent(file, Unwrap(disk[file].parent)), fuel - 1)

\* C10: loading a configuration whose parent chain contains a cycle ends with
\* a cycle-detected error; it does not recurse until the stack is exhausted.
C10_CycleDetected ==
  ChainLoops(CfgMain, Cardinality(DOMAIN disk))
    => /\ pc # "crashed"
       /\ pc = "done" => result = "CycleDetected"

\* C11: with the path checks disabled, validate rejects a configuration
\* exactly when it has no root, no rule, a rule with a blank title, a rule
\* with neither pattern nor patterns, or a rule whose root index is not below
\* the number of roots; and the error is one of a requirement that is violated.
C11_ValidateExactly ==
  (Returned("validate") /\ ~call.check_paths)
    => LET c == call.config
           verdict == Unwrap(ret)
           Blank == \E i \in 1..Len(c.rules) :
                      \A k \in 1..Len(c.rules[i].title) : c.rules[i].title[k] = " "
           Patternless == \E i \in 1..Len(c.rules) :
                            c.rules[i].pattern = None /\ c.rules[i].patterns = None
           OutOfBounds == \E i \in 1..Len(c.rules) : c.rules[i].root >= Len(c.root)
       IN /\ verdict # "Ok"
               <=> (Len(c.root) = 0 \/ Len(c.rules) = 0 \/ Blank \/ Patternless
                      \/ OutOfBounds)
          /\ verdict = "NoRoot" => Len(c.root) = 0
          /\ verdict = "NoRules" => Len(c.rules) = 0
          /\ verdict = "EmptyTitle" => Blank
          /\ verdict = "NoPattern" => Patternless
          /\ verdict = "RootOutOfBounds" => OutOfBounds
          /\ verdict \in {"Ok", "NoRoot", "NoRules", "EmptyTitle", "NoPattern",
                          "RootOutOfBounds"}

C11_Witness ==
  /\ Returned("validate")
  /\ ~call.check_paths
  /\ call.config.root = <<Missing, Root1>>
  /\ Len(call.config.rules) = 2
  /\ call.config.rules[1].root = 0
  /\ call.config.rules[2].root = 2
  /\ Unwrap(ret) = "RootOutOfBounds"

\* C12: a rule whose match pattern is not a valid regular expression makes the
\* run fail at load time: no file is scanned or matched, and process_files
\* returns an error.
C12_InvalidRegexFailsAtLoad ==
  (\E i \in 1..Len(config.rules) :
     /\ IsSome(config.rules[i].pattern)
     /\ ~RegexValid(clean_pattern(Unwrap(config.rules[i].pattern))))
    => /\ pc \notin {"scan", "file", "match"}
       /\ files = <<>>
       /\ pc = "done" => result # "Ok"

\* The value of `condition` cannot be parsed for its property: a size that is
\* no unsigned number, a boolean that is neither true nor false, a date that
\* is no RFC 3339 date, a regular expression that does not compile.
ValueUnparsable(condition) ==
  CASE condition.property = "Size" -> IsNone(ParseU64(condition.value))
    [] condition.property \in {"IsText", "IsBinary"} -> IsNone(ParseBool(condition.value))
    [] condition.property \in {"Modified", "Created"} ->
         IsNone(ParseRfc3339(condition.value))
    [] condition.property = "Content" ->
         condition.operator = "Matches" /\ ~RegexValid(condition.value)
    [] OTHER -> FALSE

\* The operator of `condition` is not one its property supports.
OperatorUnsupported(condition) ==
  CASE condition.property \in {"Size", "Modified", "Created"} ->
         condition.operator \in {"Contains", "StartsWith", "EndsWith", "Matches"}
    [] condition.property = "MimeType" ->
         condition.operator \in {"GreaterThan", "LessThan", "GreaterThanOrEqual",
                                 "LessThanOrEqual", "Matches"}
    [] condition.property \in {"IsText", "IsBinary"} ->
         condition.operator \notin {"Equal", "NotEqual"}
    [] condition.property = "Content" ->
         condition.operator \notin {"Contains", "StartsWith", "EndsWith", "Matches"}

\* C13 as stated: for every property, evaluate_condition returns an error,
\* never false, whenever the value cannot be parsed for the property or the
\* operator is not supported for it.
C13_ErrorNeverFalse ==
  (Returned("evaluate_condition")
     /\ (ValueUnparsable(call.condition) \/ OperatorUnsupported(call.condition)))
    => ~Unwrap(ret).ok

\* C13 amended: evaluate_condition returns an error whenever the value cannot
\* be parsed for the property or the operator is not supported for it, except
\* for a Content condition on a file without text preview (a binary or empty
\* file), which evaluates to false whatever its value and operator.
C13_ErrorExceptContentWithoutPreview ==
  (Returned("evaluate_condition")
     /\ (ValueUnparsable(call.condition) \/ OperatorUnsupported(call.condition)))
    => IF call.condition.property = "Content" /\ IsNone(call.analysis.text_preview)
       THEN Unwrap(ret) = Ok(FALSE)
       ELSE ~Unwrap(ret).ok

C13_Witness ==
  /\ Returned("evaluate_condition")
  /\ call.condition = [property |-> "Size", operator |-> "Contains", value |-> <<"3">>]
  /\ call.analysis.size = 3
  /\ ~Unwrap(ret).ok

\* The i-th condition of the rule of the call evaluates to true on the file
\* of the call.
ConditionHolds(i) ==
  LET e == evaluate_condition(
             Unwrap(call.rule.content_conditions)[i],
             analyse_file_content(InitialFs(DownloadNames), call.file_info.path).val)
  IN e.ok /\ e.val

\* C14: a rule with several content conditions whose pattern matches the
\* file matches when all conditions are true if match_all_conditions is set,
\* and when at least one is true otherwise; a condition that fails to
\* evaluate counts as not satisfied and the rule's result is never an error.
C14_AllOrAnyCondition ==
  (Returned("does_rule_match")
     /\ RegexIsMatch(call.rule.old_pattern, call.file_info.filename)
     /\ Len(Unwrap(call.rule.content_conditions)) > 0)
    => LET n == Len(Unwrap(call.rule.content_conditions))
       IN Unwrap(ret) = Ok(IF call.rule.match_all_conditions
                           THEN \A i \in 1..n : ConditionHolds(i)
                           ELSE \E i \in 1..n : ConditionHolds(i))

C14_Witness ==
  /\ Returned("does_rule_match")
  /\ call.file_info.filename = FileT1
  /\ call.rule.old_pattern = <<".">>
  /\ ~call.rule.match_all_conditions
  /\ Unwrap(call.rule.content_conditions)
       = <<Condition("Content", "Matches", <<"(">>), Condition("Size", "GreaterThan", <<"0">>)>>
  /\ Unwrap(ret) = Ok(TRUE)

\* C15: when the directory glob has at least one match, First returns the
\* lexicographically smallest of the matching paths and Last the greatest,
\* whatever order the directory is enumerated in.
C15_FirstSmallestLastGreatest ==
  Returned("get_dir")
    => LET chosen == Unwrap(ret)
           Entries == {call.entries[i] : i \in 1..Len(call.entries)}
       IN /\ chosen \in Entries
          /\ \A q \in Entries :
               IF call.function.name = "first"
               THEN ~StrLess(q[Len(q)], chosen[Len(chosen)])
               ELSE ~StrLess(chosen[Len(chosen)], q[Len(q)])

C15_Witness ==
  /\ Returned("get_dir")
  /\ call.function.name = "last"
  /\ call.entries = <<Join(Root1, <<<<"d", "2">>>>), Join(Root1, <<<<"b">>>>),
                      Join(Root1, <<<<"d", "1", "0">>>>)>>
  /\ Unwrap(ret) = Join(Root1, <<<<"d", "2">>>>)

\* The directory name `name` carries the marker <start:length> at position i.
HasMarkerAt(name, i, start, length) ==
  /\ i + 4 <= Len(name)
  /\ SubSeq(name, i, i + 4) = <<"<", DigitChar(start), ":", DigitChar(length), ">">>

\* `name` with the five symbols of the marker at position i replaced by `text`.
ReplaceMarker(name, i, text) ==
  SubSeq(name, 1, i - 1) \o text \o SubSeq(name, i + 5, Len(name))

\* C16: when the rule's directory contains a <start:length> marker, the
\* target directory is the directory with the marker replaced by the
\* substring of the source file name that starts at index start and has the
\* given length; when the range reaches outside the file name the resolution
\* fails with an error.
C16_DirectoryMarkerResolved ==
  Returned("apply_transformative_function")
    => \A i \in 1..3, start \in 0..3, length \in 0..3 :
         LET name == Unwrap(call.rule.directory)[1]
             filename == call.source_path[Len(call.source_path)]
         IN HasMarkerAt(name, i, start, length)
              => IF start + length <= Len(filename)
                 THEN Unwrap(ret) =
                        Ok([source_path |-> call.source_path,
                            target_dir |->
                              Join(call.root_paths[call.rule.root + 1],
                                   <<ReplaceMarker(name, i,
                                       SubSeq(filename, start + 1, start + length))>>)])
                 ELSE ~Unwrap(ret).ok

\* The brackets of `pattern` are well formed and not nested: they alternate,
\* "<" first and ">" last.
BracketsAlternate(pattern) ==
  LET brackets == SelectSeq(pattern, IsBracket)
  IN /\ Len(brackets) % 2 = 0
     /\ \A k \in 1..Len(brackets) : brackets[k] = IF k % 2 = 1 THEN "<" ELSE ">"

\* C17: for a pattern that contains a bracketed marker, the extraction
\* template is exactly the text between the first "<" and its matching ">";
\* for a pattern without a marker it is the whole pattern unchanged.  Stated
\* for the patterns whose brackets are well formed and not nested.
C17_TemplateIsFirstMarker ==
  (Returned("extract_pattern") /\ BracketsAlternate(call.pattern))
    => IF \E i \in 1..Len(call.pattern) : call.pattern[i] = "<"
       THEN LET i == CHOOSE k \in 1..Len(call.pattern) :
                       call.pattern[k] = "<" /\ \A h \in 1..(k - 1) : call.pattern[h] # "<"
                j == CHOOSE k \in (i + 1)..Len(call.pattern) :
                       call.pattern[k] = ">" /\ \A h \in (i + 1)..(k - 1) : call.pattern[h] # ">"
            IN Unwrap(ret) = SubSeq(call.pattern, i + 1, j - 1)
       ELSE Unwrap(ret) = call.pattern

\* The rules the claim derives from one declared rule: one per pattern
\* string, in list order, with that string as pattern and patterns cleared.
DerivedRules(rule) ==
  IF IsSome(rule.patterns)
  THEN [i \in 1..Len(Unwrap(rule.patterns)) |->
          [rule EXCEPT !.pattern = Some(Unwrap(rule.patterns)[i]), !.patterns = None]]
  ELSE <<rule>>

RECURSIVE ExpectedRules(_)
\* The declared rules with each rule replaced by its derived rules.
ExpectedRules(declared) ==
  IF Len(declared) = 0 THEN <<>>
  ELSE DerivedRules(DeserializeRule(Head(declared))) \o ExpectedRules(Tail(declared))

\* C18 as stated: a rule declared with a patterns list is replaced in the
\* effective rule list by one rule per pattern string, in list order, each
\* with that string as its pattern, patterns cleared, and every other field
\* equal to the original's.
C18_OneRulePerPattern ==
  (Returned("parse_rules") /\ call.kind = "single")
    => Unwrap(ret) = ExpectedRules(call.lists[1])

\* The position in the effective list of the i-th expected rule when runs of
\* equal neighbours count once.
PositionCollapsed(expected, i) ==
  1 + Cardinality({k \in 1..(i - 1) : expected[k] # expected[k + 1]})

\* C18 amended: the effective rule list holds, in list order, one rule per
\* pattern string of a rule declared with a patterns list (that string as
\* pattern, patterns cleared, every other field the original's), except that
\* a rule equal to the rule just before it is dropped.
C18_OneRulePerPatternCollapsed ==
  (Returned("parse_rules") /\ call.kind = "single")
    => LET expected == ExpectedRules(call.lists[1])
           n == Len(expected)
       IN /\ Len(Unwrap(ret)) = IF n = 0 THEN 0 ELSE PositionCollapsed(expected, n)
          /\ \A i \in 1..n : Unwrap(ret)[PositionCollapsed(expected, i)] = expected[i]

C18_Witness ==
  /\ Returned("parse_rules")
  /\ call.kind = "single"
  /\ Len(call.lists[1]) = 2
  /\ call.lists[1][1].patterns = Some(<<<<"a">>, <<"b">>>>)
  /\ call.lists[1][2].patterns = Some(<<<<"a">>, <<"a">>>>)
  /\ Len(Unwrap(ret)) = 3
  /\ Unwrap(ret)[2].pattern = Some(<<"b">>)
  /\ Unwrap(ret)[3].copy

\* C19: when rules are given as a list of lists, each rule of the i-th list
\* (counted from 0) appears in the effective rule list with root index i,
\* unless the rule sets its own root, which it then keeps.
C19_RootIndexOfList ==
  (Returned("parse_rules") /\ call.kind = "roots")
    => \A i \in 1..Len(call.lists) : \A j \in 1..Len(call.lists[i]) :
         LET declared == call.lists[i][j]
             root == IF IsSome(declared.root) THEN Unwrap(declared.root) ELSE i - 1
             derived == DerivedRules([DeserializeRule(declared) EXCEPT !.root = root])
         IN \A k \in 1..Len(derived) :
              \E h \in 1..Len(Unwrap(ret)) : Unwrap(ret)[h] = derived[k]

\* C20: for a rule whose pattern contains no capture marker, the destination
\* file name before any processor is applied is the entire source file name,
\* unchanged.  Stated on the destinations the run computes for rules without
\* processors.
C20_NoMarkerKeepsFilename ==
  \A i \in 1..Len(log) :
    LET rule == config.rules[log[i].rule]
        destination == Unwrap(log[i].target)
    IN (/\ IsSome(rule.pattern)
        /\ \A k \in 1..Len(Unwrap(rule.pattern)) : ~IsBracket(Unwrap(rule.pattern)[k])
        /\ IsNone(rule.processors)
        /\ IsSome(log[i].target))
         => destination[Len(destination)] = log[i].file[Len(log[i].file)]

\* The segments the splitter of the call cuts the text of the call into.
Segments == Split(call.destination, call.splitter)

\* The text the claim describes: the first segment as a timestamp formatted
\* per date_format, the merger, the second segment.
DatedName(merger) ==
  FormatDate(Unwrap(ParseI64(Segments[1])), call.fmt) \o merger \o Segments[2]

\* C21 as stated: date processing fails exactly when the split gives fewer
\* than two segments or the first segment is not a valid integer timestamp;
\* in every other case the result is the formatted timestamp, the merger and
\* the second segment.
C21_DateFailsExactly ==
  Returned("process_date")
    => IF Len(Segments) < 2 \/ IsNone(ParseI64(Segments[1]))
       THEN ~Unwrap(ret).ok
       ELSE /\ Unwrap(ret).ok
            /\ IsSome(call.merger) => Unwrap(ret).val = DatedName(Unwrap(call.merger))

\* C21 amended: date processing fails exactly when the split gives fewer than
\* two segments, the first segment is not a valid integer timestamp, or no
\* merger is given; in every other case the result is the formatted
\* timestamp, the merger and the second segment.
C21_DateFailsExactlyOrNoMerger ==
  Returned("process_date")
    => IF Len(Segments) < 2 \/ IsNone(ParseI64(Segments[1])) \/ IsNone(call.merger)
       THEN ~Unwrap(ret).ok
       ELSE Unwrap(ret) = Ok(DatedName(Unwrap(call.merger)))

C21_Witness ==
  /\ Returned("process_date")
  /\ call.destination = <<"-", "1", "_", "b">>
  /\ call.splitter = <<"_">>
  /\ call.fmt = <<"%d", "/", "%m">>
  /\ call.merger = Some(<<"-">>)
  /\ Unwrap(ret) = Ok(<<"31", "/", "12", "-", "b">>)

\* The rule of the call has a conversion descriptor.
HasConversion ==
  IsSome(call.rule.processors) /\ IsSome(Unwrap(call.rule.processors).format_conversion)

\* The extension of the source file of the call, empty when it has none.
SourceExtension ==
  LET name == call.path_result.source_path[Len(call.path_result.source_path)]
  IN IF IsSome(Extension(name)) THEN Unwrap(Extension(name)) ELSE <<>>

\* The source formats supported for a conversion from `format`: the image
\* formats for an image format, the text encodings for a text encoding.
SupportedSourceFormats(format) ==
  IF format \in SUPPORTED_IMAGE_FORMATS THEN SUPPORTED_IMAGE_FORMATS
  ELSE IF format \in SUPPORTED_TEXT_ENCODINGS THEN SUPPORTED_TEXT_ENCODINGS
  ELSE {}

\* The paths are passed on unchanged and nothing is written.
PassedOnUnchanged ==
  Unwrap(ret) = [res |-> Ok(call.path_result), fs |-> InitialFs(DownloadNames)]

\* The converter was called: the call's outcome is apply_conversion's.
ConversionRequested ==
  LET applied == apply_conversion(call.path_result.source_path,
                                  call.path_result.target_path,
                                  Unwrap(Unwrap(call.rule.processors).format_conversion),
                                  call.run_execution, InitialFs(DownloadNames))
  IN /\ Unwrap(ret).fs = applied.fs
     /\ Unwrap(ret).res.ok = applied.res.ok
     /\ applied.res.ok
          => Unwrap(ret).res.val = [source_path |-> applied.res.val[1],
                                    target_path |-> applied.res.val[2]]

\* C22 as stated: a format conversion is requested exactly when the rule has
\* a conversion descriptor and the file's extension belongs to the supported
\* source formats of the conversion; in every other case the source and
\* destination paths are passed on unchanged.
C22_ConversionByExtension ==
  Returned("convert_file_format")
    => IF /\ HasConversion
          /\ SourceExtension \in SupportedSourceFormats(
               Unwrap(Unwrap(call.rule.processors).format_conversion).source_format)
       THEN ConversionRequested
       ELSE PassedOnUnchanged

\* C22 amended: a format conversion is requested exactly when the rule has a
\* conversion descriptor and either its source format is an image format and
\* the file's extension is a supported image format, or its source format is
\* a supported text encoding, whatever the file's extension; in every other
\* case the source and destination paths are passed on unchanged.
C22_ConversionByExtensionOrEncoding ==
  Returned("convert_file_format")
    => IF /\ HasConversion
          /\ LET format == Unwrap(Unwrap(call.rule.processors).format_conversion).source_format
             IN \/ format \in SUPPORTED_IMAGE_FORMATS /\ SourceExtension \in SUPPORTED_IMAGE_FORMATS
                \/ format \in SUPPORTED_TEXT_ENCODINGS
       THEN ConversionRequested
       ELSE PassedOnUnchanged

C22_Witness ==
  /\ Returned("convert_file_format")
  /\ call.run_execution
  /\ call.path_result.source_path = Join(Download, <<FileT1>>)
  /\ HasConversion
  /\ Unwrap(call.rule.processors).format_conversion
       = Some(Conversion(<<"utf-8">>, <<"utf-16">>))
  /\ Unwrap(ret).res.ok
  /\ Unwrap(ret).res.val.target_path = TEMPORARY_PATH

\* C23: computing the destination name for the same file, rule and
\* configuration twice, with no file operation in between, gives the same
\* result both times: both computations fail, or both give the same name.
C23_SameResultTwice ==
  Returned("process_date_twice")
    => /\ Unwrap(ret)[1].ok = Unwrap(ret)[2].ok
       /\ Unwrap(ret)[1].val = Unwrap(ret)[2].val

C25_DerivedFieldsRecomputed ==
  Returned("prepare_rules")
    => \A i \in 1..Len(Unwrap(ret)) :
         LET rule == Unwrap(ret)[i]
         IN IF IsSome(rule.pattern)
            THEN /\ rule.old_pattern
                      = SelectSeq(Unwrap(rule.pattern), LAMBDA c : c \notin {"<", ">"})
                 /\ rule.new_pattern = extract_pattern(Unwrap(rule.pattern))
            ELSE rule.old_pattern = <<>> /\ rule.new_pattern = <<>>

C25_Witness ==
  /\ Returned("prepare_rules")
  /\ Len(call.lists[1]) = 2
  /\ call.lists[1][1].old_pattern = <<"z">>
  /\ call.lists[1][1].patterns = Some(<<<<"<", "a", ">">>, <<"b", ">">>>>)
  /\ Len(Unwrap(ret)) = 3
  /\ Unwrap(ret)[2].old_pattern = <<"b">>
  /\ Unwrap(ret)[3].old_pattern = <<"a", "b">>
  /\ Unwrap(ret)[3].new_pattern = <<"b">>

\* C26: for a pattern with nested markers the extraction template is the
\* text from just after the last "<" up to the last ">" of the pattern, so
\* that <outer<inner>> gives inner> and <pat<ter>n> gives ter>n.
LastIndexOf(pattern, c) ==
  CHOOSE i \in 1..Len(pattern) :
    pattern[i] = c /\ \A h \in (i + 1)..Len(pattern) : pattern[h] # c

HasNestedMarkers(pattern) ==
  \E i, j, k, l \in 1..Len(pattern) :
    /\ i < j /\ j < k /\ k < l
    /\ pattern[i] = "<" /\ pattern[j] = "<" /\ pattern[k] = ">" /\ pattern[l] = ">"
    /\ \A h \in (j + 1)..(k - 1) : ~IsBracket(pattern[h])
    /\ \A h \in (j + 1)..Len(pattern) : pattern[h] # "<"

C26_NestedTemplateRunsToLastBracket ==
  (Returned("extract_pattern") /\ HasNestedMarkers(call.pattern))
    => Unwrap(ret) = SubSeq(call.pattern, LastIndexOf(call.pattern, "<") + 1,
                            LastIndexOf(call.pattern, ">") - 1)

\* C27: at the end of a real run every match has ended in exactly one of
\* the outcomes moved, copied and error, so the matched counter equals the
\* sum of the moved, copied and error counters.
C27_MatchedIsMovedCopiedErrors ==
  (pc = "done" /\ ~dry_run)
    => /\ stats.files_matched = stats.files_moved + stats.files_copied + stats.errors
       /\ stats.files_matched = Len(log)
       /\ \A i \in 1..Len(log) :
            log[i].stage \in {"done", "transform", "path", "convert", "action"}

C27_Witness ==
  /\ pc = "done" /\ ~dry_run
  /\ stats.files_moved > 0
  /\ stats.files_copied > 0
  /\ stats.errors > 0
  /\ \E i \in 1..Len(log) : log[i].stage = "convert"

\* C28: applying a rule with copy set never removes or changes the source
\* file: after the operation the source file still exists in the download
\* directory with its original content, with or without a format conversion.
C28_CopyKeepsSource ==
  (Returned("process_match") /\ call.rule.copy /\ ~call.dry_run)
    => /\ IsFile(Unwrap(ret).fs, call.source_path)
       /\ Unwrap(ret).fs[call.source_path] = InitialFs(DownloadNames)[call.source_path]

\* C29: when distinct files are processed in parallel and their rules
\* request format conversions, each file's converted content ends up at that
\* file's own destination: once every worker has finished, the destination
\* of every file holds that file's content in the target format.
C29_ConvertedAtOwnDestination ==
  (call.fn = "convert_parallel" /\ todo = {} /\ \A w \in Worker : workers[w].pc = "idle")
    => \A n \in DOMAIN call.jobs :
         LET target_format == Unwrap(Unwrap(call.jobs[n].processors).format_conversion).target_format
             destination == WithExtension(Join(Root1, <<<<"i">>, n>>), target_format)
         IN /\ IsFile(fs, destination)
            /\ fs[destination].content.id = n
            /\ fs[destination].content.format = target_format

\* The same when only one file is processed.
C29_OneFileAtOwnDestination ==
  Cardinality(DOMAIN call.jobs) = 1 => C29_ConvertedAtOwnDestination

\* C30: within a run the content of a file is analysed at most once, however
\* many rules with content conditions are evaluated against it.
C30_ContentAnalysedAtMostOnce ==
  Returned("match_file_against_rules") => Unwrap(ret).analyses <= 1

====
